---- MODULE Spec2Model ----
(***************************************************************************)
(* Model of the LLM provider orchestration subsystem of memos-ai:          *)
(*   - the Service registry and the ConfigManager (provider selection),    *)
(*   - BaseProvider.DoRequest, the shared retrying HTTP transport,         *)
(*   - the TagService (result cache, per-user rate limiter, async jobs),   *)
(*   - the provider implementations and the Service's request methods,     *)
(*   - KeyCrypto and the in-memory API key vault.                          *)
(* Each subsystem has its own specification over the shared variables; a   *)
(* specification leaves the other subsystems' variables unchanged.         *)
(***************************************************************************)
EXTENDS Integers, Sequences, FiniteSets, TLC

VARIABLES
  \* ---- Service registry (type service) ----
  providers,        \* map ProviderType -> registered provider instance
  activeProvider,   \* ProviderType, "" when none
  regRet,           \* the last registry call: its name, argument and return value
  cmCall,           \* the ConfigManager call in progress, between two of its
                    \* calls on the Service
  \* ---- BaseProvider.DoRequest (one call in progress) ----
  hpc,              \* position of the call: idle, backoff, inflight, done
  cfgMaxRetries,    \* b.Config.MaxRetries
  maxRetries,       \* the local maxRetries of DoRequest
  attempt,          \* the loop variable
  lastErr,          \* the local lastErr
  ctxDone,          \* the caller's context is cancelled
  reqBody,          \* the request body buffer: [present, unread]
  backoff,          \* seconds of the current/last backoff wait
  doCalls,          \* number of b.HTTPClient.Do calls started by this DoRequest
  lastOutcome,      \* what the last b.HTTPClient.Do / io.ReadAll produced
  ret,              \* the return value of DoRequest: [returned, body, err]
  cancelAt,         \* doCalls when the context was cancelled mid-call, -1 otherwise
  connFails,        \* number of this call's attempts that ended in a connection failure
  \* ---- TagService ----
  config,           \* the TagServiceConfig the service was built with, and
                    \* whether ts.jobCallback holds a callback
  now,              \* the wall clock (time.Now()), in ticks
  cache,            \* map cache key -> cachedTags [tags, createdAt]
  rateLimits,       \* map user id -> rateLimitEntry [count, windowEnd]
  heap,             \* the TagJob objects ever created, by job ID
  jobs,             \* the job table: the IDs whose TagJob it holds
  jobQueue,         \* the buffered channel of jobs
  workers,          \* per worker goroutine: [pc, job, res]
  stopState,        \* Stop(): "running", "stopping" (stopCh closed, waiting), "stopped"
  cbCalls,          \* the jobs the completion callback was invoked with
  lastCall,         \* the TagService call that was the last step and what it returned
  admitted,         \* per user: calls admitted since the user's window opened
  \* ---- request methods ----
  reqRet,           \* the Service / provider request call that was made last
  \* ---- KeyCrypto ----
  kcText,           \* the ciphertext string at hand
  kcFrom,           \* where it comes from: [masterKey, pt, cut]
  kcRet,            \* the Decrypt call made on it: [masterKey, input, from, out]
  \* ---- InMemoryKeyStorage ----
  keys,             \* map storage key -> StoredAPIKey
  keyRet,           \* the vault call made last and what it returned
  \* ---- llmService.SuggestTags as called by the TagService ----
  llmCall,          \* the backend call in progress: [by, deadline, elapsed, pc, err]
  apiCalls,         \* per calling goroutine: the SuggestTags / SuggestTagsAsync
                    \* call it is in
  held              \* per (user, provider): the plaintext the calls so far put there

regVars  == <<providers, activeProvider, regRet, cmCall>>
httpVars == <<hpc, cfgMaxRetries, maxRetries, attempt, lastErr, ctxDone, reqBody,
              backoff, doCalls, lastOutcome, ret, cancelAt, connFails>>
tagVars  == <<config, now, cache, rateLimits, heap, jobs, jobQueue, workers, stopState,
              cbCalls, lastCall, admitted>>
keyVars  == <<keys, keyRet, held>>
auxVars  == <<reqRet, kcText, kcFrom, kcRet, keyVars, llmCall, apiCalls>>

(***************************************************************************)
(* Bounds of the model                                                     *)
(***************************************************************************)
\* Largest MaxRetries value a ProviderConfig is given in the model.
MaxRetriesCfg == 2
\* The clock runs from 0 to MaxTime ticks.
MaxTime == 2
\* TagJobs created in one behaviour.
MaxJobs == 2
\* Seconds for which one backend call of the TagService is followed.
MaxWait == 31

\* The longest req.Input of an embedding request.
MaxInputs == 2
\* The TagServiceConfig values of the model, in ticks and entries.
CacheTTL          == 1
MaxCacheSize      == 2
RateLimitRequests == 2
RateLimitWindow   == 1
AsyncQueueSize    == 1

(***************************************************************************)
(* Service registry                                                        *)
(***************************************************************************)
ProviderOpenAI    == "openai"
ProviderAnthropic == "anthropic"
ProviderGemini    == "gemini"
ProviderOllama    == "ollama"
ProviderTypes     == {ProviderOpenAI, ProviderAnthropic, ProviderGemini, ProviderOllama}

\* The dynamic type of the repository's implementation of a provider type:
\* *OpenAIProvider, *AnthropicProvider, *OllamaProvider; none for Gemini.
ConcreteType(t) ==
  CASE t = ProviderOpenAI    -> "*OpenAIProvider"
    [] t = ProviderAnthropic -> "*AnthropicProvider"
    [] t = ProviderOllama    -> "*OllamaProvider"
    [] OTHER                 -> ""

\* A value of the Provider interface as the registry sees it: GetType(),
\* IsConfigured() and its dynamic type. Provider(t, c) is an instance of the
\* repository's implementation of type t, OtherProvider(t, c) an instance of
\* any other implementation of the interface that reports type t (such as the
\* mockProvider of the service tests).
Provider(t, c)      == [type |-> t, configured |-> c, dyn |-> ConcreteType(t)]
OtherProvider(t, c) == [type |-> t, configured |-> c, dyn |-> "other"]

\* The nil Provider.
NoProvider == [type |-> "", configured |-> FALSE, dyn |-> ""]

\* The instances the constructors of the implementations build: OpenAI and
\* Anthropic with or without an API key, Ollama always with a host (an empty
\* OllamaHost becomes the default host).
ProviderImpls ==
  {Provider(t, c) : t \in {ProviderOpenAI, ProviderAnthropic}, c \in BOOLEAN}
    \cup {Provider(ProviderOllama, TRUE)}

\* The values RegisterProvider is given.
Providers ==
  ProviderImpls \cup {OtherProvider(t, c) : t \in ProviderTypes, c \in BOOLEAN}

\* The service struct as a value.
Svc(ps, a) == [providers |-> ps, activeProvider |-> a]

\* NewService(): empty map, no active provider.
NewService == Svc(<<>>, "")

Registered(svc) == DOMAIN svc.providers

\* Result of a call that may change the service.
Res(svc, err) == [svc |-> svc, err |-> err]

\* service.GetProviderByType
GetProviderByType(svc, t) ==
  IF t \in Registered(svc)
    THEN [provider |-> svc.providers[t], err |-> "nil"]
    ELSE [provider |-> NoProvider, err |-> "not registered"]

SetActiveProviderUnchecked(svc, t) == Res([svc EXCEPT !.activeProvider = t], "nil")

\* service.SetActiveProvider
SetActiveProvider(svc, t) ==
  IF t \notin Registered(svc)
    THEN Res(svc, "not registered")
    ELSE Res([svc EXCEPT !.activeProvider = t], "nil")

RegisterProviderAlwaysSelects(svc, p) ==
  LET ps == [x \in Registered(svc) \cup {p.type} |->
               IF x = p.type THEN p ELSE svc.providers[x]]
  IN Res(Svc(ps, IF p.configured THEN p.type ELSE svc.activeProvider), "nil")

\* service.RegisterProvider (provider # nil)
RegisterProvider(svc, p) ==
  LET ps == [x \in Registered(svc) \cup {p.type} |->
               IF x = p.type THEN p ELSE svc.providers[x]]
      a  == IF svc.activeProvider = "" /\ p.configured
              THEN p.type ELSE svc.activeProvider
  IN Res(Svc(ps, a), "nil")

\* service.ListProviders: one ProviderStatus per registered provider.
ListProviders(svc) ==
  { [Type       |-> t,
     Configured |-> svc.providers[t].configured,
     Active     |-> (t = svc.activeProvider)] : t \in Registered(svc) }

\* The active provider is set and registered.
HasActive(svc) == svc.activeProvider # "" /\ svc.activeProvider \in Registered(svc)

(***************************************************************************)
(* ConfigManager                                                           *)
(***************************************************************************)
fallbackOrderCloudFirst == <<ProviderOpenAI, ProviderAnthropic, ProviderGemini, ProviderOllama>>

fallbackOrder == <<ProviderOllama, ProviderOpenAI, ProviderAnthropic, ProviderGemini>>

\* ConfigManager.tryFallbackProvider: the first type of fallbackOrder that
\* ListProviders reports configured is activated.
RECURSIVE tryFallbackFrom(_, _, _)
tryFallbackFrom(svc, statuses, i) ==
  IF i > Len(fallbackOrder) THEN Res(svc, "no configured provider available for fallback")
  ELSE LET t == fallbackOrder[i]
           r == SetActiveProvider(svc, t)
       IN IF (\E s \in statuses : s.Type = t /\ s.Configured) /\ r.err = "nil"
            THEN r
            ELSE tryFallbackFrom(svc, statuses, i + 1)

tryFallbackProvider(svc) == tryFallbackFrom(svc, ListProviders(svc), 1)

\* The check of SetActiveProviderWithFallback after its SetActiveProvider
\* succeeded: GetProviderByType found the provider and it reports configured.
NeverAsRequested(g) == FALSE

AsRequested(g) == g.err = "nil" /\ g.provider.configured

\* ConfigManager.SetActiveProviderWithFallback, run with no other call on the
\* Service between its calls.
SetActiveProviderWithFallback(svc, t) ==
  LET r == SetActiveProvider(svc, t)
      g == GetProviderByType(r.svc, t)
  IN IF r.err = "nil" /\ AsRequested(g)
       THEN Res(r.svc, "nil")
       ELSE tryFallbackProvider(r.svc)

\* storepb.InstanceLLMSetting_LLMProvider
LLM_PROVIDER_UNSPECIFIED == "LLM_PROVIDER_UNSPECIFIED"
ProtoProviders == {LLM_PROVIDER_UNSPECIFIED, "OPENAI", "ANTHROPIC", "GEMINI", "OLLAMA"}

protoProviderToType(provider) ==
  CASE provider = "OPENAI"    -> ProviderOpenAI
    [] provider = "ANTHROPIC" -> ProviderAnthropic
    [] provider = "GEMINI"    -> ProviderGemini
    [] provider = "OLLAMA"    -> ProviderOllama
    [] OTHER                  -> ""

typeToProtoProvider(providerType) ==
  CASE providerType = ProviderOpenAI    -> "OPENAI"
    [] providerType = ProviderAnthropic -> "ANTHROPIC"
    [] providerType = ProviderGemini    -> "GEMINI"
    [] providerType = ProviderOllama    -> "OLLAMA"
    [] OTHER                            -> LLM_PROVIDER_UNSPECIFIED

\* A persisted InstanceLLMSetting as the ConfigManager reads and writes it: the
\* OpenAI section (absent, or present with or without an API key), the Ollama
\* section (absent or present) and the provider to activate. The record's
\* other sections are neither read by LoadFromProto nor written by ToProto.
Settings ==
  [openai : {"absent", "key", "nokey"}, ollama : {"absent", "present"},
   provider : ProtoProviders]

\* NewOpenAIProviderFromProto: configured exactly when the API key is non-empty.
NewOpenAIProviderFromProto(section) == Provider(ProviderOpenAI, section = "key")

\* NewOllamaProviderFromProto: an empty host becomes the default host, so the
\* provider always reports configured.
NewOllamaProviderFromProto(section) == Provider(ProviderOllama, TRUE)

\* ConfigManager.LoadFromProto (setting # nil), run with no other call on the
\* Service between its calls.
LoadFromProto(svc, setting) ==
  LET s1 == IF setting.openai # "absent"
              THEN RegisterProvider(svc, NewOpenAIProviderFromProto(setting.openai)).svc
              ELSE svc
      s2 == IF setting.ollama # "absent"
              THEN RegisterProvider(s1, NewOllamaProviderFromProto(setting.ollama)).svc
              ELSE s1
      providerType == protoProviderToType(setting.provider)
      r  == SetActiveProvider(s2, providerType)
  IN IF setting.provider = LLM_PROVIDER_UNSPECIFIED \/ providerType = ""
       THEN Res(s2, "nil")
     ELSE IF r.err = "nil" THEN Res(r.svc, "nil")
     ELSE Res(tryFallbackProvider(s2).svc, "nil")

\* OpenAIProvider.ToProto: the section carries the provider's API key.
OpenAIToProto(p) == IF p.configured THEN "key" ELSE "nokey"

\* OllamaProvider.ToProto: the section carries host and models.
OllamaToProto(p) == "present"

\* provider.(*OpenAIProvider), provider.(*OllamaProvider): the registered
\* value's dynamic type is the implementation of type t.
TypeAssertion(p, t) == p.dyn = ConcreteType(t)

\* ConfigManager.ToProto: the sections of the registered OpenAI and Ollama
\* providers, and the active provider's enum value.
ToProto(svc) ==
  LET statuses == ListProviders(svc)
      has(t)   == \E st \in statuses : st.Type = t
      got(t)   == GetProviderByType(svc, t)
  IN [openai   |-> IF has(ProviderOpenAI) /\ got(ProviderOpenAI).err = "nil"
                      /\ TypeAssertion(got(ProviderOpenAI).provider, ProviderOpenAI)
                     THEN OpenAIToProto(got(ProviderOpenAI).provider) ELSE "absent",
      ollama   |-> IF has(ProviderOllama) /\ got(ProviderOllama).err = "nil"
                      /\ TypeAssertion(got(ProviderOllama).provider, ProviderOllama)
                     THEN OllamaToProto(got(ProviderOllama).provider) ELSE "absent",
      provider |-> IF \E st \in statuses : st.Active
                     THEN typeToProtoProvider((CHOOSE st \in statuses : st.Active).Type)
                     ELSE LLM_PROVIDER_UNSPECIFIED]

\* ---- registry actions ----
CurSvc == Svc(providers, activeProvider)

\* The ConfigManager call in progress: the method, the provider type it is to
\* activate, the sections of the setting LoadFromProto has still to register,
\* the statuses ListProviders returned to it and the call on the Service it
\* makes next (pc). before is the Service as the call found it and alone says
\* that no other call on the Service has run since; before is kept only while
\* alone holds.
CMCall(op, arg, todo, pc) ==
  [op |-> op, arg |-> arg, todo |-> todo, pc |-> pc, statuses |-> {},
   before |-> CurSvc, alone |-> TRUE]

NoSections == [openai |-> "absent", ollama |-> "absent"]

NoCMCall == [op |-> "", arg |-> "", todo |-> NoSections, pc |-> "", statuses |-> {},
             before |-> NewService, alone |-> TRUE]

\* A call made on the Service by another goroutine while c is in progress.
Interleaved(c) ==
  IF c.pc = "" THEN c ELSE [c EXCEPT !.alone = FALSE, !.before = NewService]

\* One call on the Service made on its own: it holds the Service's mutex from
\* its first read to its last write.
RegApply(op, arg, r) ==
  /\ providers' = r.svc.providers
  /\ activeProvider' = r.svc.activeProvider
  /\ regRet' = [op |-> op, arg |-> arg, err |-> r.err, before |-> CurSvc, alone |-> TRUE]
  /\ cmCall' = Interleaved(cmCall)
  /\ UNCHANGED <<httpVars, tagVars, auxVars>>

RegisterProviderOf(ps) ==
  \E p \in ps : RegApply("RegisterProvider", p.type, RegisterProvider(CurSvc, p))

RegisterProviderCall == RegisterProviderOf(Providers)

SetActiveProviderCall ==
  \E t \in ProviderTypes : RegApply("SetActiveProvider", t, SetActiveProvider(CurSvc, t))

\* One call of the ConfigManager call c on the Service has returned: the
\* Service is svc and the call goes on from c.
CMGo(svc, c) ==
  /\ providers' = svc.providers
  /\ activeProvider' = svc.activeProvider
  /\ cmCall' = c
  /\ UNCHANGED regRet
  /\ UNCHANGED <<httpVars, tagVars, auxVars>>

\* The ConfigManager call c returns err, leaving the Service as svc.
CMReturn(svc, c, err) ==
  /\ providers' = svc.providers
  /\ activeProvider' = svc.activeProvider
  /\ regRet' = [op |-> c.op, arg |-> c.arg, err |-> err, before |-> c.before,
                alone |-> c.alone]
  /\ cmCall' = NoCMCall
  /\ UNCHANGED <<httpVars, tagVars, auxVars>>

\* SetActiveProviderWithFallback is called and makes its first call on the
\* Service, SetActiveProvider(providerType).
SetActiveProviderWithFallbackCall ==
  /\ cmCall.pc = ""
  /\ \E t \in ProviderTypes :
       LET r == SetActiveProvider(CurSvc, t)
       IN CMGo(r.svc, CMCall("SetActiveProviderWithFallback", t, NoSections,
                             IF r.err = "nil" THEN "get" ELSE "list"))

\* Its second call: GetProviderByType, then IsConfigured on what it returned.
FallbackGetProvider ==
  /\ cmCall.pc = "get"
  /\ IF AsRequested(GetProviderByType(CurSvc, cmCall.arg))
       THEN CMReturn(CurSvc, cmCall, "nil")
       ELSE CMGo(CurSvc, [cmCall EXCEPT !.pc = "list"])

\* tryFallbackProvider: providers := m.service.ListProviders()
FallbackListProviders ==
  /\ cmCall.pc = "list"
  /\ CMGo(CurSvc, [cmCall EXCEPT !.statuses = ListProviders(CurSvc), !.pc = "activate"])

\* tryFallbackProvider: the loop over fallbackOrder on the statuses read
\* before. It calls SetActiveProvider for the first type the statuses report
\* configured; a registered type stays registered, so that call succeeds and is
\* the only one. LoadFromProto logs the error of a failed search and returns nil.
FallbackActivate ==
  /\ cmCall.pc = "activate"
  /\ LET r == tryFallbackFrom(CurSvc, cmCall.statuses, 1)
     IN CMReturn(r.svc, cmCall, IF cmCall.op = "LoadFromProto" THEN "nil" ELSE r.err)

\* What LoadFromProto does next when the sections todo are left to register.
LoadPc(todo, providerType) ==
  IF todo.openai # "absent" THEN "openai"
  ELSE IF todo.ollama # "absent" THEN "ollama"
  ELSE IF providerType # "" THEN "set"
  ELSE "return"

\* LoadFromProto(setting) is called with a setting that is not nil.
LoadFromProtoCall ==
  /\ cmCall.pc = ""
  /\ \E s \in Settings :
       LET todo == [openai |-> s.openai, ollama |-> s.ollama]
           c    == CMCall("LoadFromProto", protoProviderToType(s.provider), todo,
                          LoadPc(todo, protoProviderToType(s.provider)))
       IN IF c.pc = "return" THEN CMReturn(CurSvc, c, "nil") ELSE CMGo(CurSvc, c)

\* m.service.RegisterProvider(NewOpenAIProviderFromProto(config))
LoadRegisterOpenAI ==
  /\ cmCall.pc = "openai"
  /\ LET r    == RegisterProvider(CurSvc, NewOpenAIProviderFromProto(cmCall.todo.openai))
         todo == [cmCall.todo EXCEPT !.openai = "absent"]
         c    == [cmCall EXCEPT !.todo = todo, !.pc = LoadPc(todo, cmCall.arg)]
     IN IF c.pc = "return" THEN CMReturn(r.svc, c, "nil") ELSE CMGo(r.svc, c)

\* m.service.RegisterProvider(NewOllamaProviderFromProto(config))
LoadRegisterOllama ==
  /\ cmCall.pc = "ollama"
  /\ LET r    == RegisterProvider(CurSvc, NewOllamaProviderFromProto(cmCall.todo.ollama))
         todo == [cmCall.todo EXCEPT !.ollama = "absent"]
         c    == [cmCall EXCEPT !.todo = todo, !.pc = LoadPc(todo, cmCall.arg)]
     IN IF c.pc = "return" THEN CMReturn(r.svc, c, "nil") ELSE CMGo(r.svc, c)

\* m.service.SetActiveProvider(providerType); on an error tryFallbackProvider.
LoadSetActive ==
  /\ cmCall.pc = "set"
  /\ LET r == SetActiveProvider(CurSvc, cmCall.arg)
     IN IF r.err = "nil"
          THEN CMReturn(r.svc, cmCall, "nil")
          ELSE CMGo(CurSvc, [cmCall EXCEPT !.pc = "list"])

RegInit ==
  /\ providers = <<>>
  /\ activeProvider = ""
  /\ regRet = [op |-> "NewService", arg |-> "", err |-> "nil", before |-> NewService,
               alone |-> TRUE]
  /\ cmCall = NoCMCall

\* The provider values registered while ConfigManager calls are made:
\* instances of the three implementations and of another implementation,
\* two instances of one type, configured and not.
RegistryProviders ==
  {Provider(ProviderOpenAI, TRUE), Provider(ProviderOpenAI, FALSE),
   Provider(ProviderAnthropic, FALSE), Provider(ProviderOllama, TRUE),
   OtherProvider(ProviderOllama, FALSE), OtherProvider(ProviderGemini, TRUE)}

\* The calls of the ConfigManager, each call on the Service a step of its own,
\* and the calls other goroutines make on the Service in between.
RegNext ==
  \/ RegisterProviderOf(RegistryProviders)
  \/ SetActiveProviderCall
  \/ SetActiveProviderWithFallbackCall
  \/ FallbackGetProvider
  \/ FallbackListProviders
  \/ FallbackActivate
  \/ LoadFromProtoCall
  \/ LoadRegisterOpenAI
  \/ LoadRegisterOllama
  \/ LoadSetActive

(***************************************************************************)
(* BaseProvider.DoRequest: the shared retrying transport                   *)
(***************************************************************************)
\* HTTP status codes a backend answers with in the model: success, terminal
\* client errors, rate limiting, and server errors.
Statuses == {200, 400, 401, 404, 429, 500, 502, 503, 504}

\* Raw response bodies.
Bodies == {"body1", "body2"}

\* Error values. status is the HTTP status of an "API error (status N)" error,
\* cause is the wrapped transport error of a "request failed: ..." error.
Err(kind, status, cause) == [kind |-> kind, status |-> status, cause |-> cause]
NilErr                 == Err("nil", 0, "")
ErrInvalidAPIKey       == Err("ErrInvalidAPIKey", 0, "")
ErrRateLimited         == Err("ErrRateLimited", 0, "")
ErrProviderUnavailable == Err("ErrProviderUnavailable", 0, "")
APIError(status)       == Err("APIError", status, "")
RequestFailed(cause)   == Err("RequestFailed", 0, cause)
ReadFailed(cause)      == Err("ReadFailed", 0, cause)
MarshalFailed          == Err("MarshalFailed", 0, "json")
CreateFailed           == Err("CreateFailed", 0, "http")
CtxErr                 == Err("ctx.Err", 0, "canceled")

\* BaseProvider.handleHTTPError
handleHTTPError(statusCode) ==
  CASE statusCode = 401 -> ErrInvalidAPIKey
    [] statusCode = 429 -> ErrRateLimited
    [] statusCode \in {503, 502, 504} -> ErrProviderUnavailable
    [] OTHER -> APIError(statusCode)

\* maxRetries := b.Config.MaxRetries; if maxRetries == 0 { maxRetries = 3 }
DefaultMaxRetries == 3
EffectiveMaxRetries(cfg) == IF cfg = 0 THEN DefaultMaxRetries ELSE cfg

LoopContinuesOneMore(a, m) == a <= m + 1

\* The loop condition: for attempt := 0; attempt <= maxRetries; attempt++
LoopContinues(a, m) == a <= m

RetriesClientErrors(statusCode) == FALSE

NoRetryServerErrors(statusCode) == statusCode >= 400 /\ statusCode # 429

\* "Don't retry on client errors (4xx) except rate limiting"
NoRetry(statusCode) == statusCode >= 400 /\ statusCode < 500 /\ statusCode # 429

\* backoff := time.Duration(1<<uint(attempt-1)) * time.Second
BackoffSeconds(a) == 2 ^ (a - 1)

SleepIgnoringContext(done) == "timer"

\* select { case <-ctx.Done(): ...; case <-time.After(backoff): }
\* The timer of at least one second is never ready when the select is entered,
\* so a context that is or becomes done wins.
BackoffSelect(done) == IF done THEN "ctx" ELSE "timer"

\* What one b.HTTPClient.Do(req) followed by io.ReadAll(resp.Body) can produce.
Outcome(kind, status, body, cause) ==
  [kind |-> kind, status |-> status, body |-> body, cause |-> cause]
NoOutcome == Outcome("none", 0, "", "")

\* With the request's context done, Do (or the body read) fails with the
\* context's error. Otherwise: a transport error, a failed body read, or a
\* response. A request whose body buffer was drained by an earlier attempt is
\* either replayed by the transport from GetBody (reused connection) or fails
\* with a content-length mismatch before anything is written.
DoOutcomes(done, body) ==
  IF done
    THEN {Outcome("neterr", 0, "", "canceled"), Outcome("readerr", 0, "", "canceled")}
    ELSE {Outcome("neterr", 0, "", "conn"), Outcome("readerr", 0, "", "read")}
         \cup {Outcome("resp", s, b, "") : s \in Statuses, b \in Bodies}
         \cup (IF body.present /\ ~body.unread
                 THEN {Outcome("neterr", 0, "", "bodylen")} ELSE {})

\* The error the loop body assigns to lastErr for an outcome (nil on success).
AttemptErr(o) ==
  CASE o.kind = "neterr"  -> RequestFailed(o.cause)
    [] o.kind = "readerr" -> ReadFailed(o.cause)
    [] o.kind = "resp" /\ o.status >= 400 -> handleHTTPError(o.status)
    [] OTHER -> NilErr

Returned(body, err) == [returned |-> TRUE, body |-> body, err |-> err]
NotReturned         == [returned |-> FALSE, body |-> "", err |-> NilErr]

\* The head of the loop for attempt = a: leave the loop (and return lastErr),
\* wait in the backoff select, or (first attempt) call HTTPClient.Do at once.
LoopHead(a, m) ==
  IF ~LoopContinues(a, m) THEN "return"
  ELSE IF a > 0 THEN "backoff" ELSE "do"

\* The loop is entered with attempt = a after calls Do calls and lastErr = le.
LoopEnter(a, m, le, calls, r) ==
  /\ attempt' = a
  /\ hpc' = CASE LoopHead(a, m) = "return"  -> "done"
              [] LoopHead(a, m) = "backoff" -> "backoff"
              [] OTHER -> "inflight"
  /\ ret' = IF LoopHead(a, m) = "return" THEN Returned("", le) ELSE r
  /\ backoff' = IF LoopHead(a, m) = "backoff" THEN BackoffSeconds(a) ELSE backoff
  /\ doCalls' = IF LoopHead(a, m) = "do" THEN calls + 1 ELSE calls

\* The part of DoRequest before the loop: json.Marshal(body) for a body that
\* is not nil, then http.NewRequestWithContext. The first that fails ends the
\* call; "" when the request is built.
BuildRequest(present, marshals, valid) ==
  IF present /\ ~marshals THEN "marshal"
  ELSE IF ~valid THEN "create"
  ELSE ""

\* A call of DoRequest: build the request, compute maxRetries, enter the loop.
\* The inputs: Config.MaxRetries, body nil or not, whether json.Marshal accepts
\* the body, whether method, url and ctx make a request, the context done
\* already or not. A call that fails to build the request returns before
\* maxRetries is computed and before any HTTPClient.Do.
DoRequest ==
  /\ hpc \in {"idle", "done"}
  /\ \E cfg \in (-1) .. MaxRetriesCfg, present \in BOOLEAN, done \in BOOLEAN,
        marshals \in BOOLEAN, valid \in BOOLEAN :
       /\ cfgMaxRetries' = cfg
       /\ ctxDone' = done
       /\ lastErr' = NilErr
       /\ lastOutcome' = NoOutcome
       /\ cancelAt' = -1
       /\ connFails' = 0
       /\ IF BuildRequest(present, marshals, valid) # ""
            THEN /\ hpc' = "done"
                 /\ ret' = Returned("", IF BuildRequest(present, marshals, valid) = "marshal"
                                          THEN MarshalFailed ELSE CreateFailed)
                 /\ maxRetries' = 0
                 /\ attempt' = 0
                 /\ doCalls' = 0
                 /\ reqBody' = [present |-> FALSE, unread |-> FALSE]
                 /\ UNCHANGED backoff
            ELSE /\ maxRetries' = EffectiveMaxRetries(cfg)
                 /\ reqBody' = [present |-> present, unread |-> present]
                 /\ LoopEnter(0, EffectiveMaxRetries(cfg), NilErr, 0, NotReturned)
  /\ UNCHANGED <<regVars, tagVars, auxVars>>

\* The caller cancels the context while the call waits or has a request in flight.
CtxCancel ==
  /\ hpc \in {"backoff", "inflight"}
  /\ ~ctxDone
  /\ ctxDone' = TRUE
  /\ cancelAt' = doCalls
  /\ UNCHANGED <<hpc, cfgMaxRetries, maxRetries, attempt, lastErr, reqBody, backoff,
                 doCalls, lastOutcome, ret, connFails>>
  /\ UNCHANGED <<regVars, tagVars, auxVars>>

\* The backoff select returns: ctx.Err() is returned, or the next attempt starts.
BackoffEnd ==
  /\ hpc = "backoff"
  /\ IF BackoffSelect(ctxDone) = "ctx"
       THEN /\ hpc' = "done"
            /\ ret' = Returned("", CtxErr)
            /\ UNCHANGED doCalls
       ELSE /\ hpc' = "inflight"
            /\ doCalls' = doCalls + 1
            /\ UNCHANGED ret
  /\ UNCHANGED <<cfgMaxRetries, maxRetries, attempt, lastErr, ctxDone, reqBody, backoff,
                 lastOutcome, cancelAt, connFails>>
  /\ UNCHANGED <<regVars, tagVars, auxVars>>

\* b.HTTPClient.Do and io.ReadAll return; the rest of the loop body runs.
AttemptEnd ==
  /\ hpc = "inflight"
  /\ \E o \in DoOutcomes(ctxDone, reqBody) :
       /\ lastOutcome' = o
       /\ connFails' = IF o.kind = "neterr" /\ o.cause = "conn"
                         THEN connFails + 1 ELSE connFails
       /\ reqBody' = IF o.kind = "neterr" /\ o.cause \in {"canceled", "bodylen"}
                       THEN reqBody ELSE [reqBody EXCEPT !.unread = FALSE]
       /\ IF o.kind = "resp" /\ o.status < 400
            THEN /\ hpc' = "done"
                 /\ ret' = Returned(o.body, NilErr)
                 /\ UNCHANGED <<attempt, lastErr, backoff, doCalls>>
            ELSE /\ lastErr' = AttemptErr(o)
                 /\ IF o.kind = "resp" /\ NoRetry(o.status)
                      THEN /\ hpc' = "done"
                           /\ ret' = Returned("", AttemptErr(o))
                           /\ UNCHANGED <<attempt, backoff, doCalls>>
                      ELSE LoopEnter(attempt + 1, maxRetries, AttemptErr(o), doCalls, ret)
  /\ UNCHANGED <<cfgMaxRetries, maxRetries, ctxDone, cancelAt>>
  /\ UNCHANGED <<regVars, tagVars, auxVars>>

HttpInit ==
  /\ hpc = "idle"
  /\ cfgMaxRetries = 0
  /\ maxRetries = 0
  /\ attempt = 0
  /\ lastErr = NilErr
  /\ ctxDone = FALSE
  /\ reqBody = [present |-> FALSE, unread |-> FALSE]
  /\ backoff = 0
  /\ doCalls = 0
  /\ lastOutcome = NoOutcome
  /\ ret = NotReturned
  /\ cancelAt = -1
  /\ connFails = 0

HttpNext ==
  \/ DoRequest
  \/ CtxCancel
  \/ BackoffEnd
  \/ AttemptEnd

(***************************************************************************)
(* crypto/sha256, as cacheKey and GenerateKeyID use it                     *)
(***************************************************************************)
\* A 32-bit word is the pair of its high and low 16 bits; a byte string is
\* the sequence of its bytes.
RECURSIVE Xor16(_, _)
Xor16(a, b) ==
  IF a = 0 THEN b ELSE IF b = 0 THEN a
  ELSE ((a + b) % 2) + 2 * Xor16(a \div 2, b \div 2)

RECURSIVE And16(_, _)
And16(a, b) ==
  IF a = 0 \/ b = 0 THEN 0
  ELSE (a % 2) * (b % 2) + 2 * And16(a \div 2, b \div 2)

Xor32(x, y) == <<Xor16(x[1], y[1]), Xor16(x[2], y[2])>>
And32(x, y) == <<And16(x[1], y[1]), And16(x[2], y[2])>>
Not32(x)    == <<65535 - x[1], 65535 - x[2]>>

\* x + y modulo 2^32
Add32(x, y) ==
  <<(x[1] + y[1] + (x[2] + y[2]) \div 65536) % 65536, (x[2] + y[2]) % 65536>>

\* bits.RotateLeft32(x, -n)
RotR(x, n) ==
  LET y == IF n >= 16 THEN <<x[2], x[1]>> ELSE x
      k == n % 16
  IN IF k = 0 THEN y
     ELSE <<(y[2] % 2 ^ k) * 2 ^ (16 - k) + y[1] \div 2 ^ k,
            (y[1] % 2 ^ k) * 2 ^ (16 - k) + y[2] \div 2 ^ k>>

\* x >> n
ShR(x, n) ==
  IF n >= 16 THEN <<0, x[1] \div 2 ^ (n - 16)>>
  ELSE <<x[1] \div 2 ^ n, (x[1] % 2 ^ n) * 2 ^ (16 - n) + x[2] \div 2 ^ n>>

\* The round constants and the initial hash value of SHA-256.
sha256K ==
  <<
     <<17034, 12184>>, <<28983, 17553>>, <<46528, 64463>>, <<59829, 56229>>,
     <<14678, 49755>>, <<23025, 4593>>, <<37439, 33444>>, <<43804, 24277>>,
     <<55303, 43672>>, <<4739, 23297>>, <<9265, 34238>>, <<21772, 32195>>,
     <<29374, 23924>>, <<32990, 45566>>, <<39900, 1703>>, <<49563, 61812>>,
     <<58523, 27073>>, <<61374, 18310>>, <<4033, 40390>>, <<9228, 41420>>,
     <<11753, 11375>>, <<19060, 33962>>, <<23728, 43484>>, <<30457, 35034>>,
     <<38974, 20818>>, <<43057, 50797>>, <<45059, 10184>>, <<48985, 32711>>,
     <<50912, 3059>>, <<54695, 37191>>, <<1738, 25425>>, <<5161, 10599>>,
     <<10167, 2693>>, <<11803, 8504>>, <<19756, 28156>>, <<21304, 3347>>,
     <<25866, 29524>>, <<30314, 2747>>, <<33218, 51502>>, <<37490, 11397>>,
     <<41663, 59553>>, <<43034, 26187>>, <<49739, 35696>>, <<51052, 20899>>,
     <<53650, 59417>>, <<54937, 1572>>, <<62478, 13701>>, <<4202, 41072>>,
     <<6564, 49430>>, <<7735, 27656>>, <<10056, 30540>>, <<13488, 48309>>,
     <<14620, 3251>>, <<20184, 43594>>, <<23452, 51791>>, <<26670, 28659>>,
     <<29839, 33518>>, <<30885, 25455>>, <<33992, 30740>>, <<36039, 520>>,
     <<37054, 65530>>, <<42064, 27883>>, <<48889, 41975>>, <<50801, 30962>> >>

sha256Init ==
  <<
     <<27145, 58983>>, <<47975, 44677>>, <<15470, 62322>>, <<42319, 62778>>,
     <<20750, 21119>>, <<39685, 26764>>, <<8067, 55723>>, <<23520, 52505>> >>

\* The printable ASCII characters a string constant can hold: the bytes 32 to
\* 95 and the bytes 97 to 126.
ASCIIFrom32 == " !\"#$%&'()*+,-./0123456789:;<=>?@ABCDEFGHIJKLMNOPQRSTUVWXYZ[\\]^_"
ASCIIFrom97 == "abcdefghijklmnopqrstuvwxyz{|}~"

IndexIn(table, c) ==
  IF \E i \in 1 .. Len(table) : SubSeq(table, i, i) = c
    THEN CHOOSE i \in 1 .. Len(table) : SubSeq(table, i, i) = c
    ELSE 0

\* []byte(s) for a string of these characters.
Bytes(s) ==
  [i \in 1 .. Len(s) |->
     LET c == SubSeq(s, i, i)
     IN IF IndexIn(ASCIIFrom32, c) > 0 THEN 31 + IndexIn(ASCIIFrom32, c)
        ELSE 96 + IndexIn(ASCIIFrom97, c)]

\* The padded message: the byte 0x80, zero bytes up to 56 modulo 64, and the
\* length of the message in bits as eight big-endian bytes.
sha256Pad(m) ==
  LET zeros  == (55 - Len(m)) % 64
      bitlen == 8 * Len(m)
  IN m \o <<128>> \o [i \in 1 .. zeros |-> 0]
       \o [j \in 1 .. 8 |-> IF j <= 4 THEN 0 ELSE (bitlen \div 256 ^ (8 - j)) % 256]

\* The message schedule of one block: its sixteen words, extended to 64.
RECURSIVE sha256Schedule(_)
sha256Schedule(w) ==
  IF Len(w) = 64 THEN w
  ELSE LET t  == Len(w) + 1
           s0 == Xor32(Xor32(RotR(w[t - 15], 7), RotR(w[t - 15], 18)), ShR(w[t - 15], 3))
           s1 == Xor32(Xor32(RotR(w[t - 2], 17), RotR(w[t - 2], 19)), ShR(w[t - 2], 10))
       IN sha256Schedule(Append(w, Add32(Add32(w[t - 16], s0), Add32(w[t - 7], s1))))

\* The rounds of the compression function from round r.t on, on the working
\* variables r.v.
RECURSIVE sha256Rounds(_, _)
sha256Rounds(r, w) ==
  IF r.t > 64 THEN r.v
  ELSE LET v   == r.v
           S1  == Xor32(Xor32(RotR(v[5], 6), RotR(v[5], 11)), RotR(v[5], 25))
           ch  == Xor32(And32(v[5], v[6]), And32(Not32(v[5]), v[7]))
           t1  == Add32(Add32(Add32(v[8], S1), Add32(ch, sha256K[r.t])), w[r.t])
           S0  == Xor32(Xor32(RotR(v[1], 2), RotR(v[1], 13)), RotR(v[1], 22))
           maj == Xor32(Xor32(And32(v[1], v[2]), And32(v[1], v[3])), And32(v[2], v[3]))
           t2  == Add32(S0, maj)
       IN sha256Rounds([v |-> <<Add32(t1, t2), v[1], v[2], v[3],
                                Add32(v[4], t1), v[5], v[6], v[7]>>,
                        t |-> r.t + 1], w)

\* The blocks of the padded message p from the b.n-th on are hashed into b.h.
RECURSIVE sha256Blocks(_, _)
sha256Blocks(b, p) ==
  IF 64 * (b.n - 1) >= Len(p) THEN b.h
  ELSE LET m == SubSeq(p, 64 * (b.n - 1) + 1, 64 * b.n)
           w == sha256Schedule([i \in 1 .. 16 |->
                                  <<256 * m[4 * i - 3] + m[4 * i - 2],
                                    256 * m[4 * i - 1] + m[4 * i]>>])
           v == sha256Rounds([v |-> b.h, t |-> 1], w)
       IN sha256Blocks([h |-> [i \in 1 .. 8 |-> Add32(b.h[i], v[i])], n |-> b.n + 1], p)

\* sha256.Sum256(data): the eight words of the hash.
Sum256(data) == sha256Blocks([h |-> sha256Init, n |-> 1], sha256Pad(data))

\* fmt.Sprintf("%x", b) for a 16-bit value: four lower-case hex digits.
Hex16(x) ==
  LET d(n) == SubSeq("0123456789abcdef", n + 1, n + 1)
  IN d(x \div 4096) \o d((x \div 256) % 16) \o d((x \div 16) % 16) \o d(x % 16)

\* hex.EncodeToString of the first n 32-bit words of a hash.
RECURSIVE HexWords(_, _)
HexWords(hash, n) ==
  IF n = 0 THEN ""
  ELSE HexWords(hash, n - 1) \o Hex16(hash[n][1]) \o Hex16(hash[n][2])

(***************************************************************************)
(* TagService: maps, cache and rate limiter                                *)
(***************************************************************************)
\* Go maps as functions with a growing and shrinking domain.
EmptyMap          == [x \in {} |-> 0]
Put(f, k, v)      == [x \in DOMAIN f \cup {k} |-> IF x = k THEN v ELSE f[x]]
Restrict(f, dom)  == [x \in dom |-> f[x]]

\* User ids calling the service.
UserIDs == {1, 2}

\* What a caller passes: content and the ordered existing-tags list.
Req(content, existingTags) == [content |-> content, existingTags |-> existingTags]
Requests == {Req("a", <<>>), Req("a", <<"b">>), Req("ab", <<>>)}
\* The requests made of the service with asynchronous execution.
AsyncRequests == {Req("a", <<>>)}

\* Tag lists the LLM service answers with.
TagLists == {<<"x">>, <<"y", "z">>}

\* A []string that may be nil, and a *SuggestTagsResponse that may be nil.
NilTags        == [nil |-> TRUE, Tags |-> <<>>]
SomeTags(tags) == [nil |-> FALSE, Tags |-> tags]

ErrRateLimitExceeded == "rate limit exceeded for tag suggestions"
ErrAsyncDisabled     == "async tag generation is disabled"
ErrQueueFull         == "job queue is full"
ErrLLM               == "llm service error"

\* llmService.SuggestTags: a response with tags, or an error.
LLMOutcomes == {[err |-> "", tags |-> t] : t \in TagLists} \cup {[err |-> ErrLLM, tags |-> <<>>]}

RECURSIVE Concat(_)
Concat(strs) == IF strs = <<>> THEN "" ELSE Head(strs) \o Concat(Tail(strs))

HashedKey(data) == HexWords(Sum256(Bytes(data)), 4)

\* HashedKey of the byte strings the model's requests are hashed from,
\* computed once.
KnownHashedKey ==
  [data \in {"", "a", "ab", "c"} |->
     CASE data = ""   -> "e3b0c44298fc1c149afbf4c8996fb924"
       [] data = "a"  -> "ca978112ca1bbdcafac231b39a23dc4d"
       [] data = "ab" -> "fb8e20fc2e4c3f248c60c39bd652f3c1"
       [] data = "c"  -> "2e7d2c03a9507ae265ecf5b5356885a5"]

\* The recorded values are the computed ones.
KnownHashedKeyIsComputed ==
  \A data \in DOMAIN KnownHashedKey : KnownHashedKey[data] = HashedKey(data)

\* cacheKey: SHA-256 over the bytes of content followed by the bytes of each
\* tag in order, hex-encoded and cut to 32 characters.
cacheKey(content, existingTags) ==
  LET data == content \o Concat(existingTags)
  IN IF data \in DOMAIN KnownHashedKey THEN KnownHashedKey[data] ELSE HashedKey(data)

getFromCacheAlwaysMiss(c, req, t, cf) == NilTags

getFromCacheIgnoresTTL(c, req, t, cf) ==
  LET key == cacheKey(req.content, req.existingTags)
  IN IF key \notin DOMAIN c THEN NilTags ELSE SomeTags(c[key].tags)

\* getFromCache: nil on a missing or expired entry, else a copy of the tags.
getFromCache(c, req, t, cf) ==
  LET key == cacheKey(req.content, req.existingTags)
  IN IF key \notin DOMAIN c THEN NilTags
     ELSE IF t - c[key].createdAt > cf.CacheTTL THEN NilTags
     ELSE SomeTags(c[key].tags)

\* toRemove := MaxCacheSize / 10; if toRemove < 1 { toRemove = 1 }
ToRemove(cf) == IF cf.MaxCacheSize \div 10 < 1 THEN 1 ELSE cf.MaxCacheSize \div 10

evictAnyEntries(c, t, cf) ==
  LET live == {k \in DOMAIN c : ~(t - c[k].createdAt > cf.CacheTTL)}
      n    == IF ToRemove(cf) < Cardinality(live) THEN ToRemove(cf) ELSE Cardinality(live)
  IN IF Cardinality(live) >= cf.MaxCacheSize
       THEN { Restrict(c, live \ V) : V \in { W \in SUBSET live : Cardinality(W) = n } }
       ELSE { Restrict(c, live) }

\* evictOldestEntries: the caches it can leave. Expired entries go first; if the
\* cache is still at capacity the toRemove oldest entries by createdAt go, ties
\* broken by the map's iteration order (any order).
evictOldestEntries(c, t, cf) ==
  LET live == {k \in DOMAIN c : ~(t - c[k].createdAt > cf.CacheTTL)}
      n    == IF ToRemove(cf) < Cardinality(live) THEN ToRemove(cf) ELSE Cardinality(live)
  IN IF Cardinality(live) >= cf.MaxCacheSize
       THEN { Restrict(c, live \ V) :
                V \in { W \in SUBSET live :
                          /\ Cardinality(W) = n
                          /\ \A v \in W, k \in live \ W :
                               c[v].createdAt <= c[k].createdAt } }
       ELSE { Restrict(c, live) }

\* cacheResult: the caches it can leave.
cacheResult(c, req, tags, t, cf) ==
  LET key  == cacheKey(req.content, req.existingTags)
      room == IF Cardinality(DOMAIN c) >= cf.MaxCacheSize
                THEN evictOldestEntries(c, t, cf) ELSE {c}
  IN { Put(c2, key, [tags |-> tags, createdAt |-> t]) : c2 \in room }

\* GetCacheStats: the number of entries in the map, and the configured maximum.
GetCacheStats(c, cf) == [size |-> Cardinality(DOMAIN c), maxSize |-> cf.MaxCacheSize]

checkRateLimitNeverResets(rl, u, t, cf) ==
  IF u \notin DOMAIN rl
    THEN [ok |-> TRUE,
          rl |-> Put(rl, u, [count |-> 1, windowEnd |-> t + cf.RateLimitWindow])]
  ELSE IF rl[u].count >= cf.RateLimitRequests
    THEN [ok |-> FALSE, rl |-> rl]
  ELSE [ok |-> TRUE, rl |-> [rl EXCEPT ![u].count = @ + 1]]

checkRateLimitOneWindow(rl, u, t, cf) ==
  IF u \notin DOMAIN rl \/ t > rl[u].windowEnd
    THEN [ok |-> TRUE,
          rl |-> [x \in DOMAIN rl \cup {u} |->
                    [count |-> 1, windowEnd |-> t + cf.RateLimitWindow]]]
  ELSE IF rl[u].count >= cf.RateLimitRequests
    THEN [ok |-> FALSE, rl |-> rl]
  ELSE [ok |-> TRUE, rl |-> [rl EXCEPT ![u].count = @ + 1]]

checkRateLimitOffByOne(rl, u, t, cf) ==
  IF u \notin DOMAIN rl \/ t > rl[u].windowEnd
    THEN [ok |-> TRUE,
          rl |-> Put(rl, u, [count |-> 1, windowEnd |-> t + cf.RateLimitWindow])]
  ELSE IF rl[u].count > cf.RateLimitRequests
    THEN [ok |-> FALSE, rl |-> rl]
  ELSE [ok |-> TRUE, rl |-> [rl EXCEPT ![u].count = @ + 1]]

\* checkRateLimit, one critical section under rateLimitsMu: whether the call is
\* admitted, and the rate-limit map afterwards.
checkRateLimit(rl, u, t, cf) ==
  IF u \notin DOMAIN rl \/ t > rl[u].windowEnd
    THEN [ok |-> TRUE,
          rl |-> Put(rl, u, [count |-> 1, windowEnd |-> t + cf.RateLimitWindow])]
  ELSE IF rl[u].count >= cf.RateLimitRequests
    THEN [ok |-> FALSE, rl |-> rl]
  ELSE [ok |-> TRUE, rl |-> [rl EXCEPT ![u].count = @ + 1]]

GetRateLimitStatusOfAnyWindow(rl, u, t, cf) ==
  IF u \notin DOMAIN rl
    THEN [remaining |-> cf.RateLimitRequests, resetAt |-> t + cf.RateLimitWindow]
    ELSE [remaining |-> IF cf.RateLimitRequests - rl[u].count < 0
                          THEN 0 ELSE cf.RateLimitRequests - rl[u].count,
          resetAt   |-> rl[u].windowEnd]

\* GetRateLimitStatus
GetRateLimitStatus(rl, u, t, cf) ==
  IF u \notin DOMAIN rl \/ t > rl[u].windowEnd
    THEN [remaining |-> cf.RateLimitRequests, resetAt |-> t + cf.RateLimitWindow]
    ELSE [remaining |-> IF cf.RateLimitRequests - rl[u].count < 0
                          THEN 0 ELSE cf.RateLimitRequests - rl[u].count,
          resetAt   |-> rl[u].windowEnd]

\* The user's window is open: an entry exists and its end has not passed.
WindowOpen(rl, u, t) == u \in DOMAIN rl /\ ~(t > rl[u].windowEnd)

\* Calls admitted in the user's current window, after one more call.
Admit(adm, rl, u, t, ok) ==
  IF ~ok THEN adm
  ELSE [adm EXCEPT ![u] = IF WindowOpen(rl, u, t) THEN @ + 1 ELSE 1]

(***************************************************************************)
(* TagService: jobs                                                        *)
(***************************************************************************)
TagJobStatusPending   == "pending"
TagJobStatusRunning   == "running"
TagJobStatusCompleted == "completed"
TagJobStatusFailed    == "failed"

\* A TagJob. MemoID, UserID and CreatedAt are carried by the program but read
\* by none of its logic, and are left out; CompletedAt = -1 stands for nil,
\* Error = "" for nil.
TagJob(req, status, result, completedAt) ==
  [req |-> req, Status |-> status, Result |-> result, Error |-> "",
   CompletedAt |-> completedAt]

\* generateJobID hashes content, memo id and time.Now().String(), which carries
\* the monotonic clock reading: every call yields a fresh ID.
NextJobID == Cardinality(DOMAIN heap) + 1

\* What the call that was the last step returned: its error ("" for nil), the
\* tags or the job (NilTags and 0 when absent; CleanupExpiredJobs returns its
\* count in job); llm tells whether the call invoked llmService.SuggestTags.
\* NoCall when the last step was not a call of the service's API. evicted
\* records the cache entries whose keys the call removed from the cache.
Call(op, err, tags, job, llm) ==
  [op |-> op, err |-> err, tags |-> tags, job |-> job, llm |-> llm,
   user |-> 0, req |-> Req("", <<>>), status |-> [remaining |-> 0, resetAt |-> 0],
   evicted |-> EmptyMap]
\* The same for a call that was given a user id, content and existing tags.
CallOf(u, req, op, err, tags, job, llm) ==
  [Call(op, err, tags, job, llm) EXCEPT !.user = u, !.req = req]
NoCall == Call("", "", NilTags, 0, FALSE)

\* ---- TagService calls ----
otherVars == <<regVars, httpVars, auxVars>>

\* What a step of a TagService call leaves alone outside the TagService.
notCallVars == <<regVars, httpVars, reqRet, kcText, kcFrom, kcRet, keyVars, llmCall>>

\* The goroutines that call SuggestTags and SuggestTagsAsync.
CallerIDs == DOMAIN apiCalls

\* The call a caller is in: the method, its arguments, the lock or answer it
\* waits for (pc), what its cache lookup found when it missed (seen: no entry,
\* "absent", or an entry past its time to live, "expired"), the tags it got
\* from the backend or the cache, and the job it created.
ApiCall(op, u, req, pc) ==
  [op |-> op, user |-> u, req |-> req, pc |-> pc, seen |-> "", tags |-> <<>>, job |-> 0]

\* What a lookup of req that misses has found in the map c.
Missed(c, req) ==
  IF cacheKey(req.content, req.existingTags) \in DOMAIN c THEN "expired" ELSE "absent"

NoApiCall == ApiCall("", 0, Req("", <<>>), "idle")

At(c, op, pc) == apiCalls[c].op = op /\ apiCalls[c].pc = pc

\* The call of caller c goes on from pc.
Goes(c, call) ==
  /\ apiCalls' = [apiCalls EXCEPT ![c] = call]
  /\ lastCall' = NoCall

\* The call of caller c returns what the record says.
ReturnsCall(c, record) ==
  /\ apiCalls' = [apiCalls EXCEPT ![c] = NoApiCall]
  /\ lastCall' = record

\* TagService.SuggestTags(ctx, userID, content, existingTags) is called:
\* ts.checkRateLimit(userID), under rateLimitsMu.
SuggestTags(c, u, req) ==
  LET rl == checkRateLimit(rateLimits, u, now, config)
  IN /\ apiCalls[c].pc = "idle"
     /\ stopState # "crashed"
     /\ rateLimits' = rl.rl
     /\ admitted' = Admit(admitted, rateLimits, u, now, rl.ok)
     /\ IF ~rl.ok
          THEN ReturnsCall(c, CallOf(u, req, "SuggestTags", ErrRateLimitExceeded,
                                     NilTags, 0, FALSE))
          ELSE Goes(c, ApiCall("SuggestTags", u, req, "lookup"))
     /\ UNCHANGED <<config, now, cache, heap, jobs, jobQueue, workers, stopState, cbCalls>>
     /\ UNCHANGED notCallVars

\* SuggestTags: ts.getFromCache(content, existingTags), under cacheMu (read).
\* A hit is returned; on a miss ts.llmService.SuggestTags is called, with no
\* lock held.
SuggestTagsLookup(c) ==
  LET call   == apiCalls[c]
      cached == getFromCache(cache, call.req, now, config)
  IN /\ At(c, "SuggestTags", "lookup")
     /\ IF ~cached.nil
          THEN ReturnsCall(c, CallOf(call.user, call.req, "SuggestTags", "", cached, 0, FALSE))
          ELSE Goes(c, [call EXCEPT !.pc = "llm", !.seen = Missed(cache, call.req)])
     /\ UNCHANGED <<config, now, cache, rateLimits, heap, jobs, jobQueue, workers,
                    stopState, cbCalls, admitted>>
     /\ UNCHANGED notCallVars

\* SuggestTags: ts.llmService.SuggestTags returns; an error is returned.
SuggestTagsLLMReturn(c) ==
  LET call == apiCalls[c]
  IN /\ At(c, "SuggestTags", "llm")
     /\ \E o \in LLMOutcomes :
          IF o.err # ""
            THEN ReturnsCall(c, CallOf(call.user, call.req, "SuggestTags", o.err,
                                       NilTags, 0, TRUE))
            ELSE Goes(c, [call EXCEPT !.pc = "store", !.tags = o.tags])
     /\ UNCHANGED <<config, now, cache, rateLimits, heap, jobs, jobQueue, workers,
                    stopState, cbCalls, admitted>>
     /\ UNCHANGED notCallVars

\* SuggestTags: ts.cacheResult(content, existingTags, result.Tags), under
\* cacheMu; return result, nil.
SuggestTagsStore(c) ==
  LET call == apiCalls[c]
  IN /\ At(c, "SuggestTags", "store")
     /\ cache' \in cacheResult(cache, call.req, call.tags, now, config)
     /\ ReturnsCall(c, [CallOf(call.user, call.req, "SuggestTags", "",
                               SomeTags(call.tags), 0, TRUE)
                          EXCEPT !.evicted = Restrict(cache, DOMAIN cache \ DOMAIN cache')])
     /\ UNCHANGED <<config, now, rateLimits, heap, jobs, jobQueue, workers, stopState,
                    cbCalls, admitted>>
     /\ UNCHANGED notCallVars

TrySendUnbounded(q, id, cf) == [sent |-> TRUE, queue |-> Append(q, id)]

\* select { case ts.jobQueue <- job: ... default: ... } on the channel of
\* capacity AsyncQueueSize: the send happens if there is room, and the default
\* branch runs at once if there is none.
TrySend(q, id, cf) ==
  IF Len(q) < cf.AsyncQueueSize
    THEN [sent |-> TRUE, queue |-> Append(q, id)]
    ELSE [sent |-> FALSE, queue |-> q]

\* The calls in progress that are to create a job.
JobsToCome ==
  Cardinality({c \in CallerIDs : apiCalls[c].op = "SuggestTagsAsync"
                                   /\ apiCalls[c].pc \in {"lookup", "hit", "insert"}})

\* TagService.SuggestTagsAsync(userID, memoID, content, existingTags) is
\* called: the EnableAsync check, then ts.checkRateLimit(userID) under
\* rateLimitsMu.
SuggestTagsAsync(c, u, req) ==
  LET rl == checkRateLimit(rateLimits, u, now, config)
  IN /\ apiCalls[c].pc = "idle"
     /\ stopState # "crashed"
     /\ IF ~config.EnableAsync
          THEN /\ ReturnsCall(c, CallOf(u, req, "SuggestTagsAsync", ErrAsyncDisabled,
                                        NilTags, 0, FALSE))
               /\ UNCHANGED <<rateLimits, admitted>>
          ELSE /\ rateLimits' = rl.rl
               /\ admitted' = Admit(admitted, rateLimits, u, now, rl.ok)
               /\ rl.ok => Cardinality(DOMAIN heap) + JobsToCome < MaxJobs
               /\ IF ~rl.ok
                    THEN ReturnsCall(c, CallOf(u, req, "SuggestTagsAsync",
                                               ErrRateLimitExceeded, NilTags, 0, FALSE))
                    ELSE Goes(c, ApiCall("SuggestTagsAsync", u, req, "lookup"))
     /\ UNCHANGED <<config, now, cache, heap, jobs, jobQueue, workers, stopState, cbCalls>>
     /\ UNCHANGED notCallVars

\* SuggestTagsAsync: ts.getFromCache(content, existingTags), under cacheMu (read).
SuggestTagsAsyncLookup(c) ==
  LET call   == apiCalls[c]
      cached == getFromCache(cache, call.req, now, config)
  IN /\ At(c, "SuggestTagsAsync", "lookup")
     /\ IF ~cached.nil
          THEN Goes(c, [call EXCEPT !.pc = "hit", !.tags = cached.Tags])
          ELSE Goes(c, [call EXCEPT !.pc = "insert", !.seen = Missed(cache, call.req)])
     /\ UNCHANGED <<config, now, cache, rateLimits, heap, jobs, jobQueue, workers,
                    stopState, cbCalls, admitted>>
     /\ UNCHANGED notCallVars

\* SuggestTagsAsync on a cache hit: now := time.Now(); the completed job is
\* built and returned; it is put neither in the table nor on the queue.
SuggestTagsAsyncHit(c) ==
  LET call == apiCalls[c]
      id   == NextJobID
  IN /\ At(c, "SuggestTagsAsync", "hit")
     /\ heap' = Put(heap, id, TagJob(call.req, TagJobStatusCompleted,
                                     SomeTags(call.tags), now))
     /\ ReturnsCall(c, CallOf(call.user, call.req, "SuggestTagsAsync", "",
                              SomeTags(call.tags), id, FALSE))
     /\ UNCHANGED <<config, now, cache, rateLimits, jobs, jobQueue, workers, stopState,
                    cbCalls, admitted>>
     /\ UNCHANGED notCallVars

\* SuggestTagsAsync on a miss: the pending job is built; ts.jobs[job.ID] = job,
\* under jobsMu.
SuggestTagsAsyncInsert(c) ==
  LET call == apiCalls[c]
      id   == NextJobID
  IN /\ At(c, "SuggestTagsAsync", "insert")
     /\ heap' = Put(heap, id, TagJob(call.req, TagJobStatusPending, NilTags, -1))
     /\ jobs' = jobs \cup {id}
     /\ Goes(c, [call EXCEPT !.pc = "send", !.job = id])
     /\ UNCHANGED <<config, now, cache, rateLimits, jobQueue, workers, stopState,
                    cbCalls, admitted>>
     /\ UNCHANGED notCallVars

\* SuggestTagsAsync: the select on ts.jobQueue, with no lock held. With room
\* in the channel the job is sent and the call goes on to its return; with none
\* the default branch returns the queue-full error.
SuggestTagsAsyncSend(c) ==
  LET call == apiCalls[c]
      sent == TrySend(jobQueue, call.job, config)
  IN /\ At(c, "SuggestTagsAsync", "send")
     /\ jobQueue' = sent.queue
     /\ IF sent.sent
          THEN Goes(c, [call EXCEPT !.pc = "return"])
          ELSE ReturnsCall(c, CallOf(call.user, call.req, "SuggestTagsAsync", ErrQueueFull,
                                     NilTags, 0, FALSE))
     /\ UNCHANGED <<config, now, cache, rateLimits, heap, jobs, workers, stopState,
                    cbCalls, admitted>>
     /\ UNCHANGED notCallVars

\* SuggestTagsAsync after the send: slog.Info; return job, nil. The job is on
\* the channel by now, where a worker can have received it.
SuggestTagsAsyncReturn(c) ==
  LET call == apiCalls[c]
  IN /\ At(c, "SuggestTagsAsync", "return")
     /\ ReturnsCall(c, CallOf(call.user, call.req, "SuggestTagsAsync", "",
                              NilTags, call.job, FALSE))
     /\ UNCHANGED <<config, now, cache, rateLimits, heap, jobs, jobQueue, workers,
                    stopState, cbCalls, admitted>>
     /\ UNCHANGED notCallVars

\* TagService.SetJobCallback(cb): ts.jobCallback = cb, with no lock; cb is a
\* callback (TRUE) or nil (FALSE).
SetJobCallback(cb) ==
  /\ stopState # "crashed"
  /\ config' = [config EXCEPT !.jobCallback = cb]
  /\ lastCall' = NoCall
  /\ UNCHANGED <<now, cache, rateLimits, heap, jobs, jobQueue, workers, stopState,
                 cbCalls, admitted>>
  /\ UNCHANGED otherVars

\* TagService.ClearCache
ClearCache ==
  /\ stopState # "crashed"
  /\ cache' = EmptyMap
  /\ lastCall' = Call("ClearCache", "", NilTags, 0, FALSE)
  /\ UNCHANGED <<config, now, rateLimits, heap, jobs, jobQueue, workers, stopState,
                 cbCalls, admitted>>
  /\ UNCHANGED otherVars

IsTerminal(status) == status \in {TagJobStatusCompleted, TagJobStatusFailed}

ExpiredJobsOfAnyStatus(tbl, h, t, maxAge) ==
  {id \in tbl : h[id].CompletedAt # -1 /\ t - h[id].CompletedAt > maxAge}

\* TagService.CleanupExpiredJobs(maxAge): the IDs it deletes from the table.
ExpiredJobs(tbl, h, t, maxAge) ==
  {id \in tbl : /\ IsTerminal(h[id].Status)
                /\ h[id].CompletedAt # -1
                /\ t - h[id].CompletedAt > maxAge}

\* TagService.GetRateLimitStatus(userID)
GetRateLimitStatusCall(u) ==
  /\ stopState # "crashed"
  /\ lastCall' = [Call("GetRateLimitStatus", "", NilTags, 0, FALSE) EXCEPT
                   !.user = u,
                   !.status = GetRateLimitStatus(rateLimits, u, now, config)]
  /\ UNCHANGED <<config, now, cache, rateLimits, heap, jobs, jobQueue, workers,
                 stopState, cbCalls, admitted>>
  /\ UNCHANGED otherVars

\* maxAge values CleanupExpiredJobs is called with.
MaxAges == {0, 1}

CleanupExpiredJobs(maxAge) ==
  LET gone == ExpiredJobs(jobs, heap, now, maxAge)
  IN /\ stopState # "crashed"
     /\ jobs' = jobs \ gone
     /\ lastCall' = Call("CleanupExpiredJobs", "", NilTags, Cardinality(gone), FALSE)
     /\ UNCHANGED <<config, now, cache, rateLimits, heap, jobQueue, workers, stopState,
                    cbCalls, admitted>>
     /\ UNCHANGED otherVars

\* time passes
Tick ==
  /\ now < MaxTime
  /\ now' = now + 1
  /\ lastCall' = NoCall
  /\ UNCHANGED <<config, cache, rateLimits, heap, jobs, jobQueue, workers, stopState,
                 cbCalls, admitted>>
  /\ UNCHANGED otherVars

\* ---- worker goroutines ----
WorkerIDs == DOMAIN workers

SetWorker(w, pc, job, res) == workers' = [workers EXCEPT ![w] = [pc |-> pc, job |-> job, res |-> res]]
NoRes == [err |-> "", tags |-> <<>>]

WorkerDequeueDropsJob(w) ==
  /\ workers[w].pc = "idle"
  /\ jobQueue # <<>>
  /\ jobQueue' = Tail(jobQueue)
  /\ SetWorker(w, "idle", 0, NoRes)
  /\ lastCall' = NoCall
  /\ UNCHANGED <<config, now, cache, rateLimits, heap, jobs, stopState, cbCalls, admitted>>
  /\ UNCHANGED otherVars

\* select: case job := <-ts.jobQueue
WorkerDequeue(w) ==
  /\ workers[w].pc = "idle"
  /\ jobQueue # <<>>
  /\ jobQueue' = Tail(jobQueue)
  /\ SetWorker(w, "start", Head(jobQueue), NoRes)
  /\ lastCall' = NoCall
  /\ UNCHANGED <<config, now, cache, rateLimits, heap, jobs, stopState, cbCalls, admitted>>
  /\ UNCHANGED otherVars

\* select: case <-ts.stopCh: return (wg.Done)
WorkerExit(w) ==
  /\ workers[w].pc = "idle"
  /\ stopState # "running"
  /\ SetWorker(w, "exited", 0, NoRes)
  /\ lastCall' = NoCall
  /\ UNCHANGED <<config, now, cache, rateLimits, heap, jobs, jobQueue, stopState, cbCalls,
                 admitted>>
  /\ UNCHANGED otherVars

updateJobStatusSkipped(h, tbl, id, status) == h

\* updateJobStatus(jobID, status): under jobsMu, only a job in the table is touched.
updateJobStatus(h, tbl, id, status) ==
  IF id \in tbl THEN [h EXCEPT ![id].Status = status] ELSE h

\* processJob: ts.updateJobStatus(job.ID, TagJobStatusRunning)
WorkerRunning(w) ==
  /\ workers[w].pc = "start"
  /\ heap' = updateJobStatus(heap, jobs, workers[w].job, TagJobStatusRunning)
  /\ SetWorker(w, "call", workers[w].job, NoRes)
  /\ lastCall' = NoCall
  /\ UNCHANGED <<config, now, cache, rateLimits, jobs, jobQueue, stopState, cbCalls,
                 admitted>>
  /\ UNCHANGED otherVars

\* processJob: llmService.SuggestTags returns; now := time.Now(); job.CompletedAt = &now
WorkerLLMReturn(w) ==
  /\ workers[w].pc = "call"
  /\ \E o \in LLMOutcomes : SetWorker(w, "status", workers[w].job, o)
  /\ heap' = [heap EXCEPT ![workers[w].job].CompletedAt = now]
  /\ lastCall' = NoCall
  /\ UNCHANGED <<config, now, cache, rateLimits, jobs, jobQueue, stopState, cbCalls,
                 admitted>>
  /\ UNCHANGED otherVars

\* processJob: job.Status = TagJobStatusFailed / TagJobStatusCompleted
WorkerStatus(w) ==
  /\ workers[w].pc = "status"
  /\ heap' = [heap EXCEPT ![workers[w].job].Status =
                 IF workers[w].res.err # "" THEN TagJobStatusFailed
                                            ELSE TagJobStatusCompleted]
  /\ SetWorker(w, "result", workers[w].job, workers[w].res)
  /\ lastCall' = NoCall
  /\ UNCHANGED <<config, now, cache, rateLimits, jobs, jobQueue, stopState, cbCalls,
                 admitted>>
  /\ UNCHANGED otherVars

\* processJob: job.Error = err / job.Result = result
WorkerResult(w) ==
  /\ workers[w].pc = "result"
  /\ heap' = IF workers[w].res.err # ""
               THEN [heap EXCEPT ![workers[w].job].Error = workers[w].res.err]
               ELSE [heap EXCEPT ![workers[w].job].Result = SomeTags(workers[w].res.tags)]
  /\ SetWorker(w, IF workers[w].res.err # "" THEN "store" ELSE "cache",
               workers[w].job, workers[w].res)
  /\ lastCall' = NoCall
  /\ UNCHANGED <<config, now, cache, rateLimits, jobs, jobQueue, stopState, cbCalls,
                 admitted>>
  /\ UNCHANGED otherVars

\* processJob: ts.cacheResult(job.Content, job.ExistingTags, result.Tags)
WorkerCache(w) ==
  /\ workers[w].pc = "cache"
  /\ cache' \in cacheResult(cache, heap[workers[w].job].req, workers[w].res.tags, now, config)
  /\ SetWorker(w, "store", workers[w].job, workers[w].res)
  /\ lastCall' = NoCall
  /\ UNCHANGED <<config, now, rateLimits, heap, jobs, jobQueue, stopState, cbCalls,
                 admitted>>
  /\ UNCHANGED otherVars

\* processJob: ts.jobsMu.Lock(); ts.jobs[job.ID] = job; ts.jobsMu.Unlock()
WorkerStore(w) ==
  /\ workers[w].pc = "store"
  /\ jobs' = jobs \cup {workers[w].job}
  /\ SetWorker(w, "test", workers[w].job, NoRes)
  /\ lastCall' = NoCall
  /\ UNCHANGED <<config, now, cache, rateLimits, heap, jobQueue, stopState, cbCalls,
                 admitted>>
  /\ UNCHANGED otherVars

\* processJob: if ts.jobCallback != nil, read with no lock held after jobsMu
\* is released; processJob returns when the field holds no callback.
WorkerCallbackTest(w) ==
  /\ workers[w].pc = "test"
  /\ SetWorker(w, IF config.jobCallback THEN "callback" ELSE "idle",
               IF config.jobCallback THEN workers[w].job ELSE 0, NoRes)
  /\ lastCall' = NoCall
  /\ UNCHANGED <<config, now, cache, rateLimits, heap, jobs, jobQueue, stopState, cbCalls,
                 admitted>>
  /\ UNCHANGED otherVars

\* processJob: ts.jobCallback(job) is entered. SetJobCallback writes the field
\* with no lock, so the callee is the value the check read or the value the
\* field holds now: a callback in either case when the field holds one now,
\* the callback the check read when the field was set to nil since.
WorkerCallback(w) ==
  /\ workers[w].pc = "callback"
  /\ cbCalls' = Put(cbCalls, workers[w].job,
                    IF workers[w].job \in DOMAIN cbCalls THEN cbCalls[workers[w].job] + 1 ELSE 1)
  /\ SetWorker(w, "incallback", workers[w].job, NoRes)
  /\ lastCall' = NoCall
  /\ UNCHANGED <<config, now, cache, rateLimits, heap, jobs, jobQueue, stopState, admitted>>
  /\ UNCHANGED otherVars

\* processJob: ts.jobCallback(job) when the field was set to nil after the
\* check and is read again for the call: the call of a nil func panics, and the
\* panic of a goroutine that nothing recovers ends the process.
WorkerCallbackPanics(w) ==
  /\ workers[w].pc = "callback"
  /\ ~config.jobCallback
  /\ stopState' = "crashed"
  /\ workers' = [x \in WorkerIDs |-> [pc |-> "crashed", job |-> 0, res |-> NoRes]]
  /\ apiCalls' = [c \in CallerIDs |-> [NoApiCall EXCEPT !.pc = "crashed"]]
  /\ lastCall' = NoCall
  /\ UNCHANGED <<config, now, cache, rateLimits, heap, jobs, jobQueue, cbCalls, admitted>>
  /\ UNCHANGED notCallVars

WorkerCallbackReturnsToCallback(w) ==
  /\ workers[w].pc = "incallback"
  /\ SetWorker(w, "callback", workers[w].job, NoRes)
  /\ lastCall' = NoCall
  /\ UNCHANGED <<config, now, cache, rateLimits, heap, jobs, jobQueue, stopState, cbCalls,
                 admitted>>
  /\ UNCHANGED otherVars

\* the callback returns; the worker is back at its select
WorkerCallbackReturn(w) ==
  /\ workers[w].pc = "incallback"
  /\ SetWorker(w, "idle", 0, NoRes)
  /\ lastCall' = NoCall
  /\ UNCHANGED <<config, now, cache, rateLimits, heap, jobs, jobQueue, stopState, cbCalls,
                 admitted>>
  /\ UNCHANGED otherVars

\* TagService.Stop: close(ts.stopCh), then ts.wg.Wait()
StopCall ==
  /\ stopState = "running"
  /\ stopState' = "stopping"
  /\ lastCall' = NoCall
  /\ UNCHANGED <<config, now, cache, rateLimits, heap, jobs, jobQueue, workers, cbCalls,
                 admitted>>
  /\ UNCHANGED otherVars

StopReturnWithoutWait ==
  /\ stopState = "stopping"
  /\ stopState' = "stopped"
  /\ lastCall' = NoCall
  /\ UNCHANGED <<config, now, cache, rateLimits, heap, jobs, jobQueue, workers, cbCalls,
                 admitted>>
  /\ UNCHANGED otherVars

\* TagService.Stop returns: every worker has called wg.Done
StopReturn ==
  /\ stopState = "stopping"
  /\ \A w \in WorkerIDs : workers[w].pc = "exited"
  /\ stopState' = "stopped"
  /\ lastCall' = NoCall
  /\ UNCHANGED <<config, now, cache, rateLimits, heap, jobs, jobQueue, workers, cbCalls,
                 admitted>>
  /\ UNCHANGED otherVars

\* NewTagService(llmService, cf): empty maps, the workers at their select, no
\* completion callback.
TagInit(cf) ==
  /\ config = cf
  /\ now = 0
  /\ cache = EmptyMap
  /\ rateLimits = EmptyMap
  /\ heap = EmptyMap
  /\ jobs = {}
  /\ jobQueue = <<>>
  /\ workers = [w \in 1 .. (IF cf.EnableAsync THEN cf.AsyncWorkers ELSE 0) |->
                  [pc |-> "idle", job |-> 0, res |-> NoRes]]
  /\ stopState = "running"
  /\ cbCalls = EmptyMap
  /\ lastCall = NoCall
  /\ admitted = [u \in UserIDs |-> 0]

\* The TagServiceConfig of the model, and with it the service's jobCallback
\* field: whether it holds a callback (NewTagService leaves it nil).
TagServiceConfig(async, nworkers, cb) ==
  [CacheTTL          |-> CacheTTL,
   MaxCacheSize      |-> MaxCacheSize,
   RateLimitRequests |-> RateLimitRequests,
   RateLimitWindow   |-> RateLimitWindow,
   EnableAsync       |-> async,
   AsyncWorkers      |-> nworkers,
   AsyncQueueSize    |-> AsyncQueueSize,
   jobCallback       |-> cb]

\* AsyncWorkers values the service is built with.
AsyncWorkerCounts == {1}

\* MaxCacheSize values the service is built with: NewTagService takes the
\* caller's config as it is, a zero (unset) field included.
CacheSizes == {0, MaxCacheSize}

(***************************************************************************)
(* Provider implementations and the Service request methods                *)
(***************************************************************************)
\* An error value as its chain of wrapped errors, outermost first: errors.New
\* gives a chain of one message, fmt.Errorf("msg: %w", e) puts msg in front of
\* e's chain, and nil is the empty chain.
NoError == <<>>

ErrProviderNotConfigured == <<"llm provider not configured">>

Wrapf(msg, e) == <<msg>> \o e

\* errors.Is(e, target) for a sentinel target: some error of e's chain is target.
ErrorsIs(e, target) ==
  \E i \in 1 .. Len(e) : SubSeq(e, i, Len(e)) = target

\* The chain of an error DoRequest returns: a wrapping error and its cause,
\* the context's own error, the API error with its status in the message, or a
\* sentinel.
ErrChain(e) ==
  CASE e.kind \in {"RequestFailed", "ReadFailed", "MarshalFailed", "CreateFailed"} ->
         <<e.kind, e.cause>>
    [] e.kind = "ctx.Err" -> <<e.cause>>
    [] e.kind = "APIError" -> <<"API error (status " \o ToString(e.status) \o ")">>
    [] OTHER -> <<e.kind>>

\* The errors a DoRequest call returns: the failure to build the request
\* (json.Marshal, http.NewRequestWithContext), ctx.Err() from the backoff
\* select, and the lastErr of an attempt: "request failed" around the
\* transport's error, "failed to read response" around the body read's, or
\* handleHTTPError of a status of 400 and above.
DoRequestErrors ==
  {MarshalFailed, CreateFailed, CtxErr}
    \cup ({AttemptErr(o) : o \in UNION {DoOutcomes(done, [present |-> pr, unread |-> un]) :
                                           done \in BOOLEAN, pr \in BOOLEAN, un \in BOOLEAN}}
            \ {NilErr})

\* What one DoRequest call made by a provider method returns: a response body
\* (well-formed, well-formed without completion choices, or not JSON), or one
\* of DoRequest's errors.
DoRequestResults ==
  {[body |-> b, err |-> NoError] : b \in {"ok", "nochoices", "malformed"}}
    \cup {[body |-> "", err |-> ErrChain(e)] : e \in DoRequestErrors}

\* What a provider method returns, and the number of DoRequest calls it made.
Reply(resp, err, calls) == [resp |-> resp, err |-> err, calls |-> calls]

NoReply == Reply("", NoError, 0)

\* The provider types with an implementation.
ImplementedTypes == {ProviderOpenAI, ProviderAnthropic, ProviderOllama}

\* The part of Complete / Embed / GetAvailableModels after the IsConfigured
\* guard: DoRequest's error is returned as it is, its body is parsed.
Parsed(p, what, r) ==
  IF r.err # NoError THEN Reply("", r.err, 1)
  ELSE IF r.body = "malformed"
    THEN Reply("", Wrapf("failed to parse " \o what \o " response", <<"json">>), 1)
  ELSE IF r.body = "nochoices" /\ what = "completion" /\ p.type = ProviderOpenAI
    THEN Reply("", <<"no completion choices returned">>, 1)
  ELSE Reply(what, NoError, 1)

\* OpenAIProvider / AnthropicProvider / OllamaProvider .Complete
Complete(p) ==
  IF ~p.configured THEN {Reply("", ErrProviderNotConfigured, 0)}
  ELSE {Parsed(p, "completion", r) : r \in DoRequestResults}

\* The loop of OllamaProvider.Embed over the n elements of req.Input, entered
\* for element i: one DoRequest call per element, the first error or
\* unparsable body ends the call, the end of the input returns the embeddings.
RECURSIVE OllamaEmbedFrom(_, _)
OllamaEmbedFrom(n, i) ==
  IF i > n THEN {Reply("embedding", NoError, n)}
  ELSE UNION {IF r.err # NoError THEN {Reply("", r.err, i)}
              ELSE IF r.body = "malformed"
                THEN {Reply("", Wrapf("failed to parse embedding response", <<"json">>), i)}
              ELSE OllamaEmbedFrom(n, i + 1) : r \in DoRequestResults}

\* .Embed: AnthropicProvider has no embeddings and says so before any check;
\* OpenAIProvider sends the whole of req.Input in one request; OllamaProvider
\* sends one request per element of req.Input, none for an empty input.
Embed(p) ==
  IF p.type = ProviderAnthropic
    THEN {Reply("", <<"anthropic does not support embeddings">>, 0)}
  ELSE IF ~p.configured THEN {Reply("", ErrProviderNotConfigured, 0)}
  ELSE IF p.type = ProviderOllama
    THEN UNION {OllamaEmbedFrom(n, 1) : n \in 0 .. MaxInputs}
  ELSE {Parsed(p, "embedding", r) : r \in DoRequestResults}

\* BaseProvider.DefaultSuggestTags: built on provider.Complete; a response that
\* is not a JSON array goes through extractTagsFromText, never an error.
DefaultSuggestTags(p) ==
  {IF c.err # NoError
     THEN Reply("", Wrapf("failed to get tag suggestions", c.err), c.calls)
     ELSE Reply("SuggestTagsResponse", NoError, c.calls) : c \in Complete(p)}

\* BaseProvider.DefaultSummarize
DefaultSummarize(p) ==
  {IF c.err # NoError
     THEN Reply("", Wrapf("failed to generate summary", c.err), c.calls)
     ELSE Reply("SummarizeResponse", NoError, c.calls) : c \in Complete(p)}

\* .GetAvailableModels: Anthropic returns a fixed list, the others ask the backend.
GetAvailableModels(p) ==
  IF ~p.configured THEN {Reply("", ErrProviderNotConfigured, 0)}
  ELSE IF p.type = ProviderAnthropic THEN {Reply("models", NoError, 0)}
  ELSE {Parsed(p, "models", r) : r \in DoRequestResults}

ServiceMethods  == {"Complete", "Embed", "SuggestTags", "Summarize"}
ProviderMethods == ServiceMethods \cup {"GetAvailableModels"}

\* The replies of method m of an instance p of the repository's implementations.
ProviderMethod(p, m) ==
  CASE m = "Complete"           -> Complete(p)
    [] m = "Embed"              -> Embed(p)
    [] m = "SuggestTags"        -> DefaultSuggestTags(p)
    [] m = "Summarize"          -> DefaultSummarize(p)
    [] m = "GetAvailableModels" -> GetAvailableModels(p)

\* What a value of the Provider interface that is not one of the repository's
\* implementations may return to the Service: a response, or an error, whatever
\* its GetType() and IsConfigured() report.
InterfaceReplies ==
  {Reply("response", NoError, 0), Reply("", <<"provider error">>, 0)}

\* What method m of the registered value p returns: the dynamic type decides.
ProviderReplies(p, m) ==
  IF p \in ProviderImpls
    THEN ProviderMethod(p, m)
    ELSE InterfaceReplies

\* What a Service request method returns, and whether it invoked the provider.
Returns(resp, err, invoked) == [resp |-> resp, err |-> err, invoked |-> invoked]

\* service.GetProvider: the active provider, or nil (NoProvider).
GetProvider(svc) ==
  IF HasActive(svc) THEN svc.providers[svc.activeProvider] ELSE NoProvider

\* The provider GetProvider returned is non-nil and reports configured.
Forwards(p) == p # NoProvider /\ p.configured

ServiceRequestWrapsError(p, reply) ==
  IF ~Forwards(p) THEN Returns("", ErrProviderNotConfigured, FALSE)
  ELSE Returns(reply.resp,
               IF reply.err = NoError THEN NoError ELSE Wrapf("llm service", reply.err),
               TRUE)

\* service.Complete / Embed / SuggestTags / Summarize after GetProvider has
\* returned p: the four bodies are the same up to the provider method called,
\* whose reply is the argument.
ServiceRequest(p, reply) ==
  IF p = NoProvider THEN Returns("", ErrProviderNotConfigured, FALSE)
  ELSE IF ~p.configured
    THEN Returns("", ErrProviderNotConfigured, FALSE)
  ELSE Returns(reply.resp, reply.err, TRUE)

\* The record of a request call: the layer called ("service" or "provider"),
\* the method, the provider instance concerned (for the Service, the one
\* GetProvider returned), the reply of the provider method (NoReply when none
\* was invoked) and what the call returned. pc is "provider" while a Service
\* method waits for the provider method it invoked, "" once the call returned.
ReqRecord(layer, m, p, given, out) ==
  [layer |-> layer, method |-> m, provider |-> p, given |-> given, out |-> out,
   pc |-> ""]

NoRequest == ReqRecord("", "", NoProvider, NoReply, Returns("", NoError, FALSE))

\* The Service method waits for the provider method: nothing is returned yet.
ReqInvoked(m, p) ==
  [ReqRecord("service", m, p, NoReply, Returns("", NoError, FALSE))
     EXCEPT !.pc = "provider"]

\* A Service request method is called: GetProvider reads the registry under
\* the read lock and releases it. With no provider, or one that reports
\* unconfigured, the call returns at once; otherwise it invokes the provider's
\* method, holding no lock.
ServiceRequestCall ==
  /\ reqRet.pc = ""
  /\ \E m \in ServiceMethods :
       LET p == GetProvider(CurSvc)
       IN reqRet' = IF Forwards(p)
                      THEN ReqInvoked(m, p)
                      ELSE ReqRecord("service", m, p, NoReply, ServiceRequest(p, NoReply))
  /\ UNCHANGED <<regVars, httpVars, tagVars, kcText, kcFrom, kcRet, keyVars, llmCall, apiCalls>>

\* The provider method returns and the Service method returns what it got.
ServiceRequestReturn ==
  /\ reqRet.pc = "provider"
  /\ \E reply \in ProviderReplies(reqRet.provider, reqRet.method) :
       reqRet' = ReqRecord("service", reqRet.method, reqRet.provider, reply,
                           ServiceRequest(reqRet.provider, reply))
  /\ UNCHANGED <<regVars, httpVars, tagVars, kcText, kcFrom, kcRet, keyVars, llmCall, apiCalls>>

\* A request method called on an instance of the implementations directly.
ProviderRequestCall ==
  \E p \in ProviderImpls, m \in ProviderMethods :
    \E reply \in ProviderMethod(p, m) :
      /\ reqRet' = ReqRecord("provider", m, p, reply,
                             Returns(reply.resp, reply.err, TRUE))
      /\ UNCHANGED <<regVars, httpVars, tagVars, kcText, kcFrom, kcRet, keyVars, llmCall, apiCalls>>

ReqInit == reqRet = NoRequest

\* The provider values registered while requests are made: instances of the
\* implementations and of another implementation, configured and not.
ServiceProviders ==
  {Provider(ProviderOpenAI, TRUE), Provider(ProviderOpenAI, FALSE),
   Provider(ProviderAnthropic, TRUE), Provider(ProviderOllama, TRUE),
   OtherProvider(ProviderOpenAI, TRUE), OtherProvider(ProviderGemini, FALSE)}

ServiceNext ==
  \/ RegisterProviderOf(ServiceProviders)
  \/ SetActiveProviderCall
  \/ ServiceRequestCall
  \/ ServiceRequestReturn

(***************************************************************************)
(* KeyCrypto: AES-256-GCM encryption of API keys                           *)
(***************************************************************************)
ErrInvalidCiphertext == <<"invalid ciphertext">>
ErrKeyTooShort       == <<"encryption key too short">>

\* Master secrets: two valid ones and one shorter than 16 characters.
MasterKeys == {"first-master-key-123", "second-master-key-456", "short-secret"}

\* NewKeyCrypto: the AES key is the SHA-256 hash of the master secret (taken
\* as collision free).
NewKeyCrypto(masterKey) ==
  IF Len(masterKey) < 16
    THEN [key |-> <<>>, err |-> ErrKeyTooShort]
    ELSE [key |-> <<"sha256", masterKey>>, err |-> NoError]

\* The nonces crypto/rand may deliver, and the plaintexts encrypted.
Nonces     == {1, 2}
Plaintexts == {"", "k", "sk-key"}

\* Sizes in bytes of the GCM nonce and of the GCM tag.
NonceSize == 12
TagSize   == 16

\* Length of base64.StdEncoding.EncodeToString of n bytes.
EncodedLen(n) == 4 * ((n + 2) \div 3)

\* A string handed to Decrypt, by what it is made of: the first `chars`
\* characters of the base64 text of nonce || Seal(key, nonce, pt) ("sealed"),
\* a string with a character outside the base64 alphabet ("notbase64"), or
\* well-formed base64 of `chars` characters that no Encrypt produced
\* ("foreign").  The empty string is EmptyText whatever it was cut from.
Text(kind, key, nonce, pt, chars) ==
  [kind |-> kind, key |-> key, nonce |-> nonce, pt |-> pt, chars |-> chars]

EmptyText == Text("empty", <<>>, 0, "", 0)

SealedLen(pt) == EncodedLen(NonceSize + Len(pt) + TagSize)

ForeignTexts ==
  {Text("notbase64", <<>>, 0, "", 19), Text("foreign", <<>>, 0, "", 4),
   Text("foreign", <<>>, 0, "", 36)}

\* KeyCrypto.Encrypt with the nonce crypto/rand delivered.
Encrypt(kc, plaintext, nonce) ==
  IF plaintext = "" THEN [text |-> EmptyText, err |-> NoError]
  ELSE [text |-> Text("sealed", kc.key, nonce, plaintext, SealedLen(plaintext)),
        err  |-> NoError]

\* s[:m] of a non-empty text.
Truncate(c, m) == IF m = 0 THEN EmptyText ELSE [c EXCEPT !.chars = m]

\* Number of bytes base64.StdEncoding.DecodeString yields for a well-formed
\* text: whole 3-byte groups, less the padding of a complete sealed text; the
\* two foreign texts decode to 3 and 26 bytes.
DecodedLen(c) ==
  IF c.kind = "sealed" /\ c.chars = SealedLen(c.pt)
    THEN NonceSize + Len(c.pt) + TagSize
  ELSE IF c.kind = "foreign" /\ c.chars = 36 THEN 26
  ELSE 3 * (c.chars \div 4)

DecryptUnauthenticated(kc, c) ==
  IF c.kind = "sealed" /\ c.chars = SealedLen(c.pt)
    THEN [text |-> c.pt, err |-> NoError]
    ELSE [text |-> "garbage", err |-> NoError]

\* KeyCrypto.Decrypt.  gcm.Open succeeds exactly on a complete nonce ||
\* ciphertext || tag sealed under the same key (GCM authentication taken as
\* unforgeable).
Decrypt(kc, c) ==
  IF c = EmptyText THEN [text |-> "", err |-> NoError]
  ELSE IF c.kind = "notbase64" \/ c.chars % 4 # 0
    THEN [text |-> "", err |-> Wrapf("failed to decode ciphertext", <<"base64">>)]
  ELSE IF DecodedLen(c) < NonceSize
    THEN [text |-> "", err |-> ErrInvalidCiphertext]
  ELSE IF c.kind = "sealed" /\ c.chars = SealedLen(c.pt) /\ c.key = kc.key
    THEN [text |-> c.pt, err |-> NoError]
  ELSE [text |-> "", err |-> Wrapf("failed to decrypt", <<"cipher: message authentication failed">>)]

\* How the text at hand came about: the master secret and plaintext of the
\* Encrypt call it comes from ("" for a text no Encrypt produced) and whether
\* it was cut short since.
Origin(mk, pt, cut) == [masterKey |-> mk, pt |-> pt, cut |-> cut]

\* The record of a Decrypt call: the KeyCrypto's master secret, the text it
\* was given, that text's origin and what Decrypt returned.
DecryptRecord(mk, c, from, out) ==
  [masterKey |-> mk, input |-> c, from |-> from, out |-> out]

NoDecrypt ==
  DecryptRecord("", EmptyText, Origin("", "", FALSE), [text |-> "", err |-> NoError])

\* kc := NewKeyCrypto(mk); kcText, err = kc.Encrypt(x)
EncryptCall ==
  \E mk \in MasterKeys, x \in Plaintexts, n \in Nonces :
    /\ NewKeyCrypto(mk).err = NoError
    /\ kcText' = Encrypt(NewKeyCrypto(mk), x, n).text
    /\ kcFrom' = Origin(mk, x, FALSE)
    /\ kcRet' = NoDecrypt
    /\ UNCHANGED <<regVars, httpVars, tagVars, reqRet, keyVars, llmCall, apiCalls>>

\* The text is cut to a proper prefix before it is handed back.
TruncateText ==
  \E m \in 0 .. kcText.chars - 1 :
    /\ kcText.kind = "sealed"
    /\ kcFrom.masterKey # ""
    /\ kcText' = Truncate(kcText, m)
    /\ kcFrom' = [kcFrom EXCEPT !.cut = TRUE]
    /\ kcRet' = NoDecrypt
    /\ UNCHANGED <<regVars, httpVars, tagVars, reqRet, keyVars, llmCall, apiCalls>>

\* A text that no Encrypt produced is handed in.
ForeignText ==
  \E c \in ForeignTexts :
    /\ kcText' = c
    /\ kcFrom' = Origin("", "", FALSE)
    /\ kcRet' = NoDecrypt
    /\ UNCHANGED <<regVars, httpVars, tagVars, reqRet, keyVars, llmCall, apiCalls>>

\* kc := NewKeyCrypto(mk); kc.Decrypt(kcText)
DecryptCall ==
  \E mk \in MasterKeys :
    /\ NewKeyCrypto(mk).err = NoError
    /\ kcRet' = DecryptRecord(mk, kcText, kcFrom, Decrypt(NewKeyCrypto(mk), kcText))
    /\ UNCHANGED <<regVars, httpVars, tagVars, reqRet, kcText, kcFrom, keyVars, llmCall, apiCalls>>

CryptoInit ==
  /\ kcText = EmptyText
  /\ kcFrom = Origin("", "", FALSE)
  /\ kcRet = NoDecrypt

CryptoNext ==
  \/ EncryptCall
  \/ TruncateText
  \/ ForeignText
  \/ DecryptCall

(***************************************************************************)
(* InMemoryKeyStorage: the API key vault                                   *)
(***************************************************************************)
ErrKeyNotFound      == <<"API key not found">>
ErrKeyAlreadyExists == <<"API key already exists for this provider">>

\* The owners (0 is the instance-wide owner), the provider types and the API
\* keys the vault is called with, and the nonce its encryptions draw. The
\* keys: the empty key, a key too short for OpenAI, and two keys of OpenAI's
\* format whose SHA-256 hashes have the same first four bytes.
VaultUsers     == {0, 1}
VaultProviders == {ProviderOpenAI, ProviderOllama}
VaultNonces    == {1}
APIKeys        == {"", "sk-short", "sk-00000000000000055424", "sk-00000000000000105806"}

HasPrefix(s, prefix) == Len(s) >= Len(prefix) /\ SubSeq(s, 1, Len(prefix)) = prefix

\* ValidateAPIKeyFormat: NoError, or the error it returns.
ValidateAPIKeyFormat(providerType, apiKey) ==
  IF apiKey = "" THEN <<"API key cannot be empty">>
  ELSE CASE providerType = ProviderOpenAI ->
              IF ~HasPrefix(apiKey, "sk-")
                THEN <<"OpenAI API key should start with 'sk-'">>
              ELSE IF Len(apiKey) < 20 THEN <<"OpenAI API key appears too short">>
              ELSE NoError
         [] providerType = ProviderAnthropic ->
              IF ~HasPrefix(apiKey, "sk-ant-")
                THEN <<"Anthropic API key should start with 'sk-ant-'">>
              ELSE NoError
         [] providerType = ProviderGemini ->
              IF Len(apiKey) < 20 THEN <<"Google API key appears too short">>
              ELSE NoError
         [] providerType = ProviderOllama -> NoError
         [] OTHER ->
              IF Len(apiKey) < 10 THEN <<"API key appears too short">> ELSE NoError

\* MaskAPIKey: stars, then the last four characters of a key longer than four.
MaskAPIKey(apiKey) ==
  LET RECURSIVE Stars(_)
      Stars(n) == IF n = 0 THEN "" ELSE "*" \o Stars(n - 1)
  IN IF Len(apiKey) <= 4 THEN Stars(Len(apiKey))
     ELSE Stars(Len(apiKey) - 4) \o SubSeq(apiKey, Len(apiKey) - 3, Len(apiKey))

\* hash := sha256.Sum256([]byte(apiKey)); fmt.Sprintf("%x", hash[:4])
HashPrefix(apiKey) == HexWords(Sum256(Bytes(apiKey)), 1)

\* HashPrefix of the keys the vault is called with, computed once.
KnownHashPrefix ==
  [k \in APIKeys \ {""} |->
     CASE k = "sk-short" -> "fb55d731"
       [] k = "sk-00000000000000055424" -> "4554c52f"
       [] k = "sk-00000000000000105806" -> "4554c52f"]

\* The recorded values are the computed ones.
KnownHashPrefixIsComputed ==
  \A k \in DOMAIN KnownHashPrefix : KnownHashPrefix[k] = HashPrefix(k)

\* GenerateKeyID: the first four bytes of the key's SHA-256 hash, in hex.
GenerateKeyID(apiKey) ==
  IF apiKey = "" THEN ""
  ELSE IF apiKey \in DOMAIN KnownHashPrefix THEN KnownHashPrefix[apiKey]
  ELSE HashPrefix(apiKey)

\* storageKey: "<userID>:<providerType>"
storageKey(userID, providerType) == ToString(userID) \o ":" \o providerType

\* A StoredAPIKey; the three timestamps are kept as whether LastUsedAt is set.
StoredAPIKey(userID, providerType, apiKey, encryptedKey, used) ==
  [ID           |-> GenerateKeyID(apiKey),
   ProviderType |-> providerType,
   EncryptedKey |-> encryptedKey,
   MaskedKey    |-> MaskAPIKey(apiKey),
   LastUsedAt   |-> used,
   UserID       |-> userID]

\* NewInMemoryKeyStorage(VaultMasterKey): the vault's KeyCrypto.
VaultMasterKey == "first-master-key-123"
VaultCrypto    == NewKeyCrypto(VaultMasterKey)

\* Result of a vault call: the map after it, the error, the string returned.
VaultRes(ks, err, text) == [keys |-> ks, err |-> err, text |-> text]

StoreKeyOverwrites(ks, userID, providerType, apiKey, nonce) ==
  LET key == storageKey(userID, providerType)
      v   == ValidateAPIKeyFormat(providerType, apiKey)
  IN IF v # NoError THEN VaultRes(ks, Wrapf("invalid API key", v), "")
     ELSE VaultRes(Put(ks, key, StoredAPIKey(userID, providerType, apiKey,
                         Encrypt(VaultCrypto, apiKey, nonce).text, FALSE)),
                   NoError, "")

\* InMemoryKeyStorage.StoreKey
StoreKey(ks, userID, providerType, apiKey, nonce) ==
  LET key == storageKey(userID, providerType)
      v   == ValidateAPIKeyFormat(providerType, apiKey)
      enc == Encrypt(VaultCrypto, apiKey, nonce)
  IN IF v # NoError THEN VaultRes(ks, Wrapf("invalid API key", v), "")
     ELSE IF key \in DOMAIN ks THEN VaultRes(ks, ErrKeyAlreadyExists, "")
     ELSE IF enc.err # NoError
       THEN VaultRes(ks, Wrapf("failed to encrypt key", enc.err), "")
     ELSE VaultRes(Put(ks, key, StoredAPIKey(userID, providerType, apiKey,
                                             enc.text, FALSE)),
                   NoError, "")

GetKeyOfAnyOwner(ks, userID, providerType) ==
  LET owned == {k \in DOMAIN ks : ks[k].ProviderType = providerType}
  IN IF owned = {} THEN VaultRes(ks, ErrKeyNotFound, "")
     ELSE VaultRes(ks, NoError,
                   Decrypt(VaultCrypto, ks[CHOOSE k \in owned : TRUE].EncryptedKey).text)

\* InMemoryKeyStorage.GetKey
GetKey(ks, userID, providerType) ==
  LET key == storageKey(userID, providerType)
      dec == Decrypt(VaultCrypto, ks[key].EncryptedKey)
  IN IF key \notin DOMAIN ks THEN VaultRes(ks, ErrKeyNotFound, "")
     ELSE IF dec.err # NoError
       THEN VaultRes(ks, Wrapf("failed to decrypt key", dec.err), "")
     ELSE VaultRes(ks, NoError, dec.text)

\* InMemoryKeyStorage.UpdateKey
UpdateKey(ks, userID, providerType, apiKey, nonce) ==
  LET key == storageKey(userID, providerType)
      v   == ValidateAPIKeyFormat(providerType, apiKey)
      enc == Encrypt(VaultCrypto, apiKey, nonce)
  IN IF v # NoError THEN VaultRes(ks, Wrapf("invalid API key", v), "")
     ELSE IF key \notin DOMAIN ks THEN VaultRes(ks, ErrKeyNotFound, "")
     ELSE IF enc.err # NoError
       THEN VaultRes(ks, Wrapf("failed to encrypt key", enc.err), "")
     ELSE VaultRes(Put(ks, key, StoredAPIKey(userID, providerType, apiKey,
                                             enc.text, ks[key].LastUsedAt)),
                   NoError, "")

\* InMemoryKeyStorage.DeleteKey
DeleteKey(ks, userID, providerType) ==
  LET key == storageKey(userID, providerType)
  IN IF key \notin DOMAIN ks THEN VaultRes(ks, ErrKeyNotFound, "")
     ELSE VaultRes(Restrict(ks, DOMAIN ks \ {key}), NoError, "")

\* InMemoryKeyStorage.HasKey
HasKey(ks, userID, providerType) == storageKey(userID, providerType) \in DOMAIN ks

\* InMemoryKeyStorage.MarkKeyUsed
MarkKeyUsed(ks, userID, providerType) ==
  LET key == storageKey(userID, providerType)
  IN IF key \notin DOMAIN ks THEN VaultRes(ks, ErrKeyNotFound, "")
     ELSE VaultRes([ks EXCEPT ![key].LastUsedAt = TRUE], NoError, "")

\* ---- vault actions ----
\* A vault call is recorded with its arguments and what it returned; held
\* follows the calls: per (user, provider) pair, the plaintext of the last
\* successful StoreKey or UpdateKey since the last successful DeleteKey.
NotHeld   == [has |-> FALSE, apiKey |-> ""]
Held(k)   == [has |-> TRUE, apiKey |-> k]

VaultApply(op, userID, providerType, apiKey, r) ==
  /\ keys' = r.keys
  /\ keyRet' = [op |-> op, userID |-> userID, providerType |-> providerType,
                apiKey |-> apiKey, err |-> r.err, text |-> r.text]
  /\ held' = IF r.err # NoError \/ op \in {"GetKey", "MarkKeyUsed"} THEN held
             ELSE [held EXCEPT ![<<userID, providerType>>] =
                     IF op = "DeleteKey" THEN NotHeld ELSE Held(apiKey)]
  /\ UNCHANGED <<regVars, httpVars, tagVars, reqRet, kcText, kcFrom, kcRet, llmCall, apiCalls>>

StoreKeyCall ==
  \E u \in VaultUsers, p \in VaultProviders, k \in APIKeys, n \in VaultNonces :
    VaultApply("StoreKey", u, p, k, StoreKey(keys, u, p, k, n))

UpdateKeyCall ==
  \E u \in VaultUsers, p \in VaultProviders, k \in APIKeys, n \in VaultNonces :
    VaultApply("UpdateKey", u, p, k, UpdateKey(keys, u, p, k, n))

DeleteKeyCall ==
  \E u \in VaultUsers, p \in VaultProviders :
    VaultApply("DeleteKey", u, p, "", DeleteKey(keys, u, p))

MarkKeyUsedCall ==
  \E u \in VaultUsers, p \in VaultProviders :
    VaultApply("MarkKeyUsed", u, p, "", MarkKeyUsed(keys, u, p))

GetKeyCall ==
  \E u \in VaultUsers, p \in VaultProviders :
    VaultApply("GetKey", u, p, "", GetKey(keys, u, p))

VaultInit ==
  /\ keys = EmptyMap
  /\ keyRet = [op |-> "NewInMemoryKeyStorage", userID |-> 0, providerType |-> "",
               apiKey |-> "", err |-> NoError, text |-> ""]
  /\ held = [s \in VaultUsers \X VaultProviders |-> NotHeld]

VaultNext ==
  \/ StoreKeyCall
  \/ UpdateKeyCall
  \/ DeleteKeyCall
  \/ MarkKeyUsedCall
  \/ GetKeyCall

(***************************************************************************)
(* The backend call of the TagService and its context                      *)
(***************************************************************************)
\* A context's deadline, in seconds from the start of the call; NoDeadline for
\* a context without one (context.Background()).
NoDeadline == -1
\* context.WithTimeout(parent, timeout): the earlier of the parent's deadline
\* and the timeout.
WithTimeout(parent, timeout) ==
  IF parent # NoDeadline /\ parent < timeout THEN parent ELSE timeout
\* processJob: context.WithTimeout(context.Background(), 30*time.Second)
LLMCallTimeout == 30
\* The contexts callers pass to the synchronous SuggestTags.
CallerDeadlines == {NoDeadline, 10, 40}

NoLLMCall == [by |-> "", deadline |-> NoDeadline, elapsed |-> 0, pc |-> "idle", err |-> ""]
StartLLMCall(by, d) == [by |-> by, deadline |-> d, elapsed |-> 0, pc |-> "running", err |-> ""]
notLLMVars == <<regVars, httpVars, tagVars, reqRet, kcText, kcFrom, kcRet, keyVars, apiCalls>>

\* The context of the call in progress is done: its deadline has passed.
CtxDone(c) == c.deadline # NoDeadline /\ c.elapsed >= c.deadline

\* SuggestTags after a cache miss: ts.llmService.SuggestTags(ctx, ...) with the
\* ctx the caller passed.
SuggestTagsLLMCall(d) ==
  /\ llmCall.pc # "running"
  /\ llmCall' = StartLLMCall("SuggestTags", d)
  /\ UNCHANGED notLLMVars

\* processJob: ctx, cancel := context.WithTimeout(context.Background(), 30s);
\* ts.llmService.SuggestTags(ctx, ...)
ProcessJobLLMCall ==
  /\ llmCall.pc # "running"
  /\ llmCall' = StartLLMCall("processJob", WithTimeout(NoDeadline, LLMCallTimeout))
  /\ UNCHANGED notLLMVars

\* A second passes while the backend has not answered. A backend call returns
\* when its context is done, so no time passes in a call whose context is.
LLMCallTick ==
  /\ llmCall.pc = "running"
  /\ ~CtxDone(llmCall)
  /\ llmCall.elapsed < MaxWait
  /\ llmCall' = [llmCall EXCEPT !.elapsed = @ + 1]
  /\ UNCHANGED notLLMVars

\* llmService.SuggestTags returns: the context's error once the context is
\* done, the backend's answer or error before.
LLMCallReturn ==
  /\ llmCall.pc = "running"
  /\ \E o \in LLMOutcomes :
       llmCall' = [llmCall EXCEPT !.pc = "returned",
                                  !.err = IF CtxDone(llmCall)
                                            THEN "context deadline exceeded" ELSE o.err]
  /\ UNCHANGED notLLMVars

LLMCallNext ==
  \/ \E d \in CallerDeadlines : SuggestTagsLLMCall(d)
  \/ ProcessJobLLMCall
  \/ LLMCallTick
  \/ LLMCallReturn

(***************************************************************************)
(* The tag list a caller holds                                             *)
(***************************************************************************)
\* The Tags slice of the response that the SuggestTags call c returned shares
\* its array with the cache entry of the call's key: on a miss the call stores
\* result.Tags with cacheResult, which keeps the slice it is given, and returns
\* the same result; on a hit getFromCache returns a copy.
SharesCacheArray(c) == c.op = "SuggestTags" /\ c.err = "" /\ c.llm

\* The list with its first element overwritten by the caller.
Overwritten(tags) == [tags EXCEPT ![1] = "changed"]

\* The caller of the SuggestTags call that has just returned writes an element
\* of the tag list it was given.
CallerChangesTags ==
  LET key == cacheKey(lastCall.req.content, lastCall.req.existingTags)
  IN /\ lastCall.op = "SuggestTags"
     /\ lastCall.err = ""
     /\ lastCall.tags.Tags # <<>>
     /\ cache' = IF SharesCacheArray(lastCall) /\ key \in DOMAIN cache
                   THEN [cache EXCEPT ![key].tags = Overwritten(@)]
                   ELSE cache
     /\ lastCall' = [lastCall EXCEPT !.op = "changed by caller",
                                     !.tags.Tags = Overwritten(@)]
     /\ UNCHANGED <<config, now, rateLimits, heap, jobs, jobQueue, workers, stopState,
                    cbCalls, admitted>>
     /\ UNCHANGED otherVars

\* The steps of the SuggestTags calls in progress.
SuggestTagsSteps ==
  \/ \E c \in CallerIDs : SuggestTagsLookup(c)
  \/ \E c \in CallerIDs : SuggestTagsLLMReturn(c)
  \/ \E c \in CallerIDs : SuggestTagsStore(c)

\* The steps of the SuggestTagsAsync calls in progress.
SuggestTagsAsyncSteps ==
  \/ \E c \in CallerIDs : SuggestTagsAsyncLookup(c)
  \/ \E c \in CallerIDs : SuggestTagsAsyncHit(c)
  \/ \E c \in CallerIDs : SuggestTagsAsyncInsert(c)
  \/ \E c \in CallerIDs : SuggestTagsAsyncSend(c)
  \/ \E c \in CallerIDs : SuggestTagsAsyncReturn(c)

\* The steps of processJob up to the check of the callback.
ProcessJobSteps ==
  \/ \E w \in WorkerIDs : WorkerRunning(w)
  \/ \E w \in WorkerIDs : WorkerLLMReturn(w)
  \/ \E w \in WorkerIDs : WorkerStatus(w)
  \/ \E w \in WorkerIDs : WorkerResult(w)
  \/ \E w \in WorkerIDs : WorkerCache(w)
  \/ \E w \in WorkerIDs : WorkerStore(w)
  \/ \E w \in WorkerIDs : WorkerCallbackTest(w)

\* The callback: it is set, invoked and returns.
CallbackSteps ==
  \/ \E cb \in BOOLEAN : SetJobCallback(cb)
  \/ \E w \in WorkerIDs : WorkerCallback(w)
  \/ \E w \in WorkerIDs : WorkerCallbackPanics(w)
  \/ \E w \in WorkerIDs : WorkerCallbackReturn(w)

\* A synchronous service whose caller changes the tag lists it gets; its
\* SuggestTagsAsync refuses every call.
TagCallerNext ==
  \/ \E c \in CallerIDs, r \in Requests : SuggestTags(c, 1, r)
  \/ SuggestTagsSteps
  \/ \E c \in CallerIDs, r \in AsyncRequests : SuggestTagsAsync(c, 1, r)
  \/ CallerChangesTags
  \/ Tick

(***************************************************************************)
(* Next-state relations of the TagService specifications                   *)
(***************************************************************************)
\* A service with async execution and no completion callback, serving the
\* synchronous and asynchronous calls one user makes from several goroutines.
TagCallsNext ==
  \/ \E c \in CallerIDs, r \in AsyncRequests : SuggestTags(c, 1, r)
  \/ SuggestTagsSteps
  \/ \E c \in CallerIDs, r \in AsyncRequests : SuggestTagsAsync(c, 1, r)
  \/ SuggestTagsAsyncSteps
  \/ ClearCache
  \/ Tick
  \/ \E w \in WorkerIDs : WorkerDequeue(w)
  \/ ProcessJobSteps

\* The requests made of the synchronous service: three cache keys.
CacheRequests == Requests \cup {Req("c", <<>>)}

\* A synchronous service: the calls of one user filling and clearing the cache.
TagCacheNext ==
  \/ \E c \in CallerIDs, r \in CacheRequests : SuggestTags(c, 1, r)
  \/ SuggestTagsSteps
  \/ ClearCache
  \/ Tick

\* A service with async execution and no worker: the calls of two users that
\* pass through the rate limiter, and the status query.
TagLimitNext ==
  \/ \E c \in CallerIDs, u \in UserIDs, r \in AsyncRequests : SuggestTags(c, u, r)
  \/ SuggestTagsSteps
  \/ \E c \in CallerIDs, u \in UserIDs, r \in AsyncRequests : SuggestTagsAsync(c, u, r)
  \/ SuggestTagsAsyncSteps
  \/ \E u \in UserIDs : GetRateLimitStatusCall(u)
  \/ Tick

\* A service with async execution: the jobs of one user, the workers, the
\* completion callback, cleanup.
TagAsyncNext ==
  \/ \E c \in CallerIDs, r \in AsyncRequests : SuggestTagsAsync(c, 1, r)
  \/ SuggestTagsAsyncSteps
  \/ \E a \in MaxAges : CleanupExpiredJobs(a)
  \/ Tick
  \/ \E w \in WorkerIDs : WorkerDequeue(w)
  \/ ProcessJobSteps
  \/ CallbackSteps

\* A service with async execution that is stopped while it works.
TagStopNext ==
  \/ \E c \in CallerIDs, r \in AsyncRequests : SuggestTagsAsync(c, 1, r)
  \/ SuggestTagsAsyncSteps
  \/ \E w \in WorkerIDs : WorkerDequeue(w)
  \/ \E w \in WorkerIDs : WorkerExit(w)
  \/ ProcessJobSteps
  \/ CallbackSteps
  \/ StopCall
  \/ StopReturn

(***************************************************************************)
(* Specifications                                                          *)
(***************************************************************************)
vars == <<regVars, httpVars, tagVars, auxVars>>

\* The goroutines that call SuggestTags and SuggestTagsAsync at the same time.
Goroutines == {1, 2}

\* The goroutines ids call the TagService, each one call at a time.
AuxInitOf(ids) ==
  /\ ReqInit
  /\ CryptoInit
  /\ VaultInit
  /\ llmCall = NoLLMCall
  /\ apiCalls = [c \in ids |-> NoApiCall]

AuxInit == AuxInitOf({1})

Init == RegInit /\ HttpInit /\ AuxInit /\ TagInit(TagServiceConfig(FALSE, 0, FALSE))

\* A TagService with the worker pool, called by one goroutine.
InitAsync ==
  /\ RegInit
  /\ HttpInit
  /\ AuxInit
  /\ \E n \in AsyncWorkerCounts : TagInit(TagServiceConfig(TRUE, n, FALSE))

\* A TagService with the worker pool, called by several goroutines.
InitCalls ==
  /\ RegInit
  /\ HttpInit
  /\ AuxInitOf(Goroutines)
  /\ \E n \in AsyncWorkerCounts : TagInit(TagServiceConfig(TRUE, n, FALSE))

\* A synchronous TagService built with any of the cache sizes.
InitCache ==
  /\ RegInit
  /\ HttpInit
  /\ AuxInitOf(Goroutines)
  /\ \E n \in CacheSizes :
       TagInit([TagServiceConfig(FALSE, 0, FALSE) EXCEPT !.MaxCacheSize = n])

\* A TagService with a job queue and AsyncWorkers = 0.
InitLimits ==
  /\ RegInit
  /\ HttpInit
  /\ AuxInit
  /\ TagInit(TagServiceConfig(TRUE, 0, FALSE))

\* The Service's request methods over a changing registry.
SpecService == Init /\ [][ServiceNext]_vars

\* The request methods of the provider implementations, called directly.
SpecProviders == Init /\ [][ProviderRequestCall]_vars

\* The API key vault under any sequence of its calls.
SpecVault == Init /\ [][VaultNext]_vars

\* KeyCrypto: texts are encrypted, cut short or made up, and decrypted.
SpecCrypto == Init /\ [][CryptoNext]_vars

\* The Service registry and the ConfigManager.
SpecRegistry == Init /\ [][RegNext]_vars

\* One BaseProvider executing DoRequest calls.
SpecHTTP == Init /\ [][HttpNext]_vars

\* The synchronous TagService: its response cache.
SpecTagCache == InitCache /\ [][TagCacheNext]_vars

\* The TagService's rate limiter and job queue under the calls of two users.
SpecRateLimit == InitLimits /\ [][TagLimitNext]_vars

\* The TagService with asynchronous execution enabled: its calls.
SpecTagCalls == InitCalls /\ [][TagCallsNext]_vars

\* The TagService with asynchronous execution enabled: its jobs.
SpecTagAsync == InitAsync /\ [][TagAsyncNext]_vars

\* The TagService with asynchronous execution, and Stop.
SpecTagStop == InitAsync /\ [][TagStopNext]_vars

(***************************************************************************)
(* Properties: the Service registry                                        *)
(***************************************************************************)
\* C1: in every state reachable through RegisterProvider, SetActiveProvider,
\* LoadFromProto and SetActiveProviderWithFallback calls on one Service,
\* ListProviders reports Active for at most one entry, and an active provider
\* that is set is a key of the registry.
C1_OneActiveAndRegistered ==
  /\ Cardinality({st \in ListProviders(CurSvc) : st.Active}) <= 1
  /\ activeProvider # "" => activeProvider \in DOMAIN providers

\* The active provider was switched between two registered providers.
C1_Witness ==
  /\ regRet.op = "SetActiveProvider"
  /\ regRet.err = "nil"
  /\ regRet.before.activeProvider \notin {"", activeProvider}
  /\ Cardinality({st \in ListProviders(CurSvc) : st.Active}) = 1

(***************************************************************************)
(* Properties: BaseProvider.DoRequest                                      *)
(***************************************************************************)
\* The attempt budget of a call: the loop runs for attempt = 0 .. maxRetries.
Budget == maxRetries + 1

\* An attempt outcome the loop goes on from: a transport error, a failed body
\* read, a 5xx or a 429 response (failures caused by the caller's own
\* cancellation are not counted here).
Retryable(o) ==
  \/ o.kind \in {"neterr", "readerr"} /\ o.cause # "canceled"
  \/ o.kind = "resp" /\ (o.status >= 500 \/ o.status = 429)

\* The call has returned and its last attempt ended in a retryable failure.
EndedOnRetryable == hpc = "done" /\ Retryable(lastOutcome)

\* C6 as stated: a network error, a 5xx or a 429 on an attempt is followed by
\* another attempt until an attempt succeeds or the budget is exhausted, and
\* then the last attempt's error is returned: a call whose last attempt failed
\* that way has used the whole budget and returns that attempt's error.
C6_RetriedUntilExhausted ==
  EndedOnRetryable =>
    /\ doCalls = Budget
    /\ ret = Returned("", AttemptErr(lastOutcome))

\* C6, amended: after a network error, a 5xx or a 429 the call waits for or
\* runs another attempt; it ends on such a failure only with the budget of
\* maxRetries + 1 attempts used up, returning the last attempt's error, or
\* with the context done during a backoff wait, returning the context's error;
\* a successful attempt ends the call with that attempt's body.
C6_RetriedUntilExhaustedOrCancelled ==
  /\ EndedOnRetryable =>
       \/ /\ doCalls = Budget
          /\ ret = Returned("", AttemptErr(lastOutcome))
       \/ /\ ctxDone
          /\ doCalls < Budget
          /\ ret = Returned("", CtxErr)
  /\ (Retryable(lastOutcome) /\ hpc # "done") =>
       /\ hpc \in {"backoff", "inflight"}
       /\ doCalls <= Budget
  /\ (lastOutcome.kind = "resp" /\ lastOutcome.status < 400) =>
       /\ hpc = "done"
       /\ ret = Returned(lastOutcome.body, NilErr)

\* The budget was used up by retries and the last error came back.
C6_Witness ==
  /\ EndedOnRetryable
  /\ doCalls = Budget
  /\ doCalls >= 2
  /\ ret = Returned("", AttemptErr(lastOutcome))

\* C7: a response with a 4xx status other than 429 ends DoRequest with that
\* attempt: no backoff and no further attempt follow, the mapped error is
\* returned, and a 401 on the first attempt returns ErrInvalidAPIKey after one
\* HTTP call (zero retries).
C7_ClientErrorIsTerminal ==
  (/\ lastOutcome.kind = "resp"
   /\ lastOutcome.status >= 400
   /\ lastOutcome.status < 500
   /\ lastOutcome.status # 429) =>
    /\ hpc = "done"
    /\ ret = Returned("", handleHTTPError(lastOutcome.status))
    /\ doCalls = attempt + 1
    /\ lastOutcome.status = 401 => ret.err = ErrInvalidAPIKey
    /\ (lastOutcome.status = 401 /\ attempt = 0) => doCalls = 1

\* A 401 on the first attempt of a call that had retries left.
C7_Witness ==
  /\ lastOutcome.kind = "resp"
  /\ lastOutcome.status = 401
  /\ hpc = "done"
  /\ doCalls = 1
  /\ maxRetries >= 1
  /\ ret.err = ErrInvalidAPIKey

\* C8 as stated: one DoRequest call performs at most MaxRetries HTTP attempts
\* in total, at most 3 when MaxRetries is not set (zero).
C8_AtMostMaxRetriesAttempts ==
  cfgMaxRetries >= 0 =>
    doCalls <= (IF cfgMaxRetries = 0 THEN DefaultMaxRetries ELSE cfgMaxRetries)

\* C8, amended: one DoRequest call performs at most MaxRetries + 1 HTTP
\* attempts in total, the first attempt and up to MaxRetries retries: at most
\* 4 when MaxRetries is not set (zero), and none when MaxRetries is negative.
C8_AtMostMaxRetriesPlusOneAttempts ==
  /\ cfgMaxRetries > 0 => doCalls <= cfgMaxRetries + 1
  /\ cfgMaxRetries = 0 => doCalls <= DefaultMaxRetries + 1
  /\ cfgMaxRetries < 0 => doCalls = 0

\* With MaxRetries not set, a fourth attempt was made.
C8_Witness ==
  /\ cfgMaxRetries = 0
  /\ doCalls = DefaultMaxRetries + 1
  /\ hpc = "done"

\* C9: once the caller's context is cancelled while DoRequest waits in a
\* backoff or has an HTTP attempt in flight, DoRequest starts no further HTTP
\* attempt, and what it returns is an error.
C9_CancelStopsAttempts ==
  cancelAt >= 0 =>
    /\ doCalls = cancelAt
    /\ ret.returned => ret.err # NilErr

\* The context was cancelled during a backoff wait with attempts left, and the
\* call returned the context's error.
C9_Witness ==
  /\ cancelAt >= 1
  /\ cancelAt < Budget
  /\ hpc = "done"
  /\ lastOutcome.cause # "canceled"
  /\ ret = Returned("", CtxErr)

\* The call returned the error of its last attempt (not the context's error).
SurfacedFromAttempt == hpc = "done" /\ doCalls >= 1 /\ ret.err # CtxErr

\* C10: errors surfacing from DoRequest follow the taxonomy: HTTP 401 yields
\* ErrInvalidAPIKey, HTTP 429 yields ErrRateLimited, HTTP 502/503/504 yields
\* ErrProviderUnavailable, and a connection failure on every attempt of the
\* budget yields ErrProviderUnavailable.
C10_ErrorTaxonomy ==
  SurfacedFromAttempt =>
    /\ (lastOutcome.kind = "resp" /\ lastOutcome.status = 401) =>
         ret.err = ErrInvalidAPIKey
    /\ (lastOutcome.kind = "resp" /\ lastOutcome.status = 429) =>
         ret.err = ErrRateLimited
    /\ (lastOutcome.kind = "resp" /\ lastOutcome.status \in {502, 503, 504}) =>
         ret.err = ErrProviderUnavailable
    /\ (connFails = doCalls /\ doCalls = Budget) =>
         ret.err = ErrProviderUnavailable

(***************************************************************************)
(* Properties: the TagService                                              *)
(***************************************************************************)
\* The step is the return of a SuggestTags or SuggestTagsAsync call.
IsTagCall == lastCall'.op \in {"SuggestTags", "SuggestTagsAsync"}

\* The step is the first of a SuggestTags or SuggestTagsAsync call with the
\* arguments u and r, made by any goroutine: the call reaches the rate limiter
\* (unless async execution is disabled).
Called(u, r) ==
  \E c \in CallerIDs : SuggestTags(c, u, r) \/ SuggestTagsAsync(c, u, r)

\* The step is the first of a SuggestTags or a SuggestTagsAsync call of user u.
CallBy(u) == \E r \in Requests : Called(u, r)

\* User u has used up the quota of the open window.
QuotaUsed(u) ==
  WindowOpen(rateLimits, u, now) /\ admitted[u] = config.RateLimitRequests

\* C2: with RateLimitRequests = N >= 1, among the SuggestTags and
\* SuggestTagsAsync calls one user makes from several goroutines inside one
\* open window, however their steps interleave, exactly N pass the rate-limit
\* check: a call fails with ErrRateLimitExceeded exactly when N calls of the
\* window were admitted before it; and the window counter always equals the
\* number of calls admitted in the window.
C2_ExactlyNAdmittedPerWindow ==
  /\ [](\A u \in DOMAIN rateLimits :
          /\ rateLimits[u].count = admitted[u]
          /\ admitted[u] >= 1
          /\ admitted[u] <= config.RateLimitRequests)
  /\ [][\A u \in UserIDs :
          (config.EnableAsync /\ CallBy(u)) =>
            /\ (lastCall'.err = ErrRateLimitExceeded) <=> QuotaUsed(u)
            /\ ~QuotaUsed(u) =>
                 admitted'[u] = (IF WindowOpen(rateLimits, u, now) THEN admitted[u] + 1 ELSE 1)
            /\ QuotaUsed(u) => admitted'[u] = admitted[u]]_vars

\* A call was refused after N calls of the window, one of them asynchronous,
\* were admitted.
C2_Witness ==
  /\ lastCall.op = "SuggestTags"
  /\ lastCall.err = ErrRateLimitExceeded
  /\ QuotaUsed(1)
  /\ rateLimits[1].count = config.RateLimitRequests
  /\ heap # EmptyMap

\* A result for the request was stored no more than CacheTTL ago and is still
\* in the cache.
StoredFresh(req) ==
  LET key == cacheKey(req.content, req.existingTags)
  IN /\ key \in DOMAIN cache
     /\ now - cache[key].createdAt <= config.CacheTTL

StoredTags(req) == SomeTags(cache[cacheKey(req.content, req.existingTags)].tags)

\* The call returned the stored tags without calling the LLM service.
ServedFromCache(req) ==
  /\ lastCall'.err = ""
  /\ lastCall'.tags = StoredTags(req)
  /\ ~lastCall'.llm
  /\ cache' = cache

\* The async call of caller c found the stored tags and goes on to build the
\* completed job; it recorded and enqueued nothing.
FoundStored(c) ==
  /\ apiCalls'[c].pc = "hit"
  /\ SomeTags(apiCalls'[c].tags) = StoredTags(apiCalls[c].req)
  /\ cache' = cache
  /\ UNCHANGED <<heap, jobs, jobQueue>>

\* The async call of caller c returned a new, already completed job holding
\* the tags it found, recorded and enqueued nothing and called no LLM service.
ServedCompletedJob(c) ==
  /\ lastCall'.err = ""
  /\ lastCall'.tags = SomeTags(apiCalls[c].tags)
  /\ ~lastCall'.llm
  /\ lastCall'.job \in DOMAIN heap' \ DOMAIN heap
  /\ heap'[lastCall'.job].Status = TagJobStatusCompleted
  /\ heap'[lastCall'.job].Result = SomeTags(apiCalls[c].tags)
  /\ jobQueue' = jobQueue
  /\ jobs' = jobs
  /\ cache' = cache

\* A lookup that finds a result stored less than CacheTTL ago is served from
\* the cache: the synchronous call returns the stored tags, the asynchronous
\* one a completed job that holds them.
FreshLookupServed ==
  \A c \in CallerIDs :
    /\ (SuggestTagsLookup(c) /\ StoredFresh(apiCalls[c].req))
         => ServedFromCache(apiCalls[c].req)
    /\ (SuggestTagsAsyncLookup(c) /\ StoredFresh(apiCalls[c].req)) => FoundStored(c)
    /\ SuggestTagsAsyncHit(c) => ServedCompletedJob(c)

\* C3 as stated: a SuggestTags or SuggestTagsAsync call for a pair whose result
\* was stored less than CacheTTL ago and is still in the cache returns the
\* stored tags and makes no call to the LLM service; the async variant returns
\* an already completed job and enqueues nothing. In particular such a call
\* does not fail.
C3_CacheHitAlwaysServed ==
  [][/\ \A u \in UserIDs, r \in Requests :
          (Called(u, r) /\ StoredFresh(r)) => lastCall'.err = ""
     /\ FreshLookupServed]_vars

\* The call of user u passes the rate-limit check.
PassesRateLimit(u) == checkRateLimit(rateLimits, u, now, config).ok

\* C3, amended: a SuggestTags or SuggestTagsAsync call that passes the
\* rate-limit check (async execution being enabled for the async variant) and
\* whose lookup finds a result for its pair that was stored less than CacheTTL
\* ago returns the stored tags and makes no call to the LLM service; the async
\* variant returns an already completed job and enqueues nothing. A call
\* refused by the rate limiter fails with ErrRateLimitExceeded whatever the
\* cache holds.
C3_AdmittedCacheHitServed ==
  [][/\ FreshLookupServed
     /\ \A u \in UserIDs, r \in Requests :
          (Called(u, r) /\ config.EnableAsync /\ ~PassesRateLimit(u)) =>
            /\ lastCall'.err = ErrRateLimitExceeded
            /\ ~lastCall'.llm
            /\ apiCalls' = apiCalls]_vars

\* An async call was served from the cache: a completed job that is neither
\* in the job table nor in the queue.
C3_Witness ==
  /\ lastCall.op = "SuggestTagsAsync"
  /\ lastCall.err = ""
  /\ ~lastCall.tags.nil
  /\ lastCall.job \in DOMAIN heap
  /\ lastCall.job \notin jobs
  /\ heap[lastCall.job].Status = TagJobStatusCompleted
  /\ heap[lastCall.job].Result = lastCall.tags

\* What one step does to the job id: a job appears pending when a call that
\* missed the cache records it in the table, or completed when a call that hit
\* the cache returns it; an existing job keeps its status or moves
\* pending -> running or running -> completed / failed.
JobStep(id) ==
  IF id \notin DOMAIN heap
    THEN \/ /\ heap'[id].Status = TagJobStatusPending
            /\ id \in jobs'
            /\ \E c \in CallerIDs : /\ At(c, "SuggestTagsAsync", "insert")
                                    /\ apiCalls'[c].job = id
         \/ /\ heap'[id].Status = TagJobStatusCompleted
            /\ \E c \in CallerIDs : At(c, "SuggestTagsAsync", "hit")
            /\ lastCall'.job = id
    ELSE \/ heap'[id].Status = heap[id].Status
         \/ /\ heap[id].Status = TagJobStatusPending
            /\ heap'[id].Status = TagJobStatusRunning
         \/ /\ heap[id].Status = TagJobStatusRunning
            /\ IsTerminal(heap'[id].Status)

\* The step puts the job of a call that missed the cache on the queue: the job
\* is pending then, and the call goes on to return that job.
QueuesPendingJob ==
  \A c \in CallerIDs :
    (SuggestTagsAsyncSend(c) /\ jobQueue' # jobQueue) =>
      /\ heap'[apiCalls[c].job].Status = TagJobStatusPending
      /\ apiCalls'[c].pc = "return"
      /\ apiCalls'[c].job = apiCalls[c].job

\* The step hands a job to the caller after a cache miss: the job the call put
\* on the queue.
ReturnsQueuedJob ==
  \A c \in CallerIDs :
    SuggestTagsAsyncReturn(c) => lastCall'.err = "" /\ lastCall'.job = apiCalls[c].job

\* The job handed to the caller after a cache miss is pending at the return.
ReturnsPendingJob ==
  \A c \in CallerIDs :
    SuggestTagsAsyncReturn(c) => heap'[lastCall'.job].Status = TagJobStatusPending

\* C4 as stated: a job submitted through SuggestTagsAsync on a cache miss is
\* pending when returned; a job's status only moves pending -> running ->
\* completed or failed, never reaches completed or failed without having been
\* running, and never changes once completed or failed; only the cache-hit
\* fast path yields a job that is completed without having been running.
C4_PendingWhenReturned ==
  [][/\ DOMAIN heap \subseteq DOMAIN heap'
     /\ \A id \in DOMAIN heap' : JobStep(id)
     /\ ReturnsQueuedJob
     /\ ReturnsPendingJob]_vars

\* C4, amended: a job submitted through SuggestTagsAsync on a cache miss is
\* pending when the call puts it on the job queue, and it is the job the call
\* returns; a job's status only moves pending -> running -> completed or
\* failed, never reaches completed or failed without having been running, and
\* never changes once completed or failed; only the cache-hit fast path yields
\* a job that is completed without having been running.
C4_JobLifecycle ==
  [][/\ DOMAIN heap \subseteq DOMAIN heap'
     /\ \A id \in DOMAIN heap' : JobStep(id)
     /\ QueuesPendingJob
     /\ ReturnsQueuedJob]_vars

\* A call that missed the cache has just returned its job, which a worker
\* received after the send and has set running or finished since, and an
\* earlier job was served completed from the cache.
C4_Witness ==
  /\ lastCall.op = "SuggestTagsAsync"
  /\ lastCall.err = ""
  /\ lastCall.job \in jobs
  /\ heap[lastCall.job].Status # TagJobStatusPending
  /\ \E id \in DOMAIN heap \ jobs : heap[id].Status = TagJobStatusCompleted

\* The jobs a reader can hold: those GetJob finds in the table and those the
\* completion callback was handed.
ObservableJobs == jobs \cup DOMAIN cbCalls

\* C5: at every moment, a job obtained through GetJob or handed to the
\* completion callback whose status reads completed has a non-nil Result, and
\* one whose status reads failed has a non-nil Error.
C5_TerminalJobCarriesOutcome ==
  \A id \in ObservableJobs :
    /\ heap[id].Status = TagJobStatusCompleted => ~heap[id].Result.nil
    /\ heap[id].Status = TagJobStatusFailed => heap[id].Error # ""

(***************************************************************************)
(* ConfigManager: activation with fallback                                 *)
(***************************************************************************)
\* The state is the one a SetActiveProviderWithFallback call has just returned in.
AfterFallbackCall ==
  regRet.op = "SetActiveProviderWithFallback" /\ regRet.alone /\ cmCall.pc = ""

\* The type is registered in svc and its instance reports configured.
Usable(svc, t) == t \in Registered(svc) /\ svc.providers[t].configured

SomeUsable(svc) == \E t \in ProviderTypes : Usable(svc, t)

\* C11: SetActiveProviderWithFallback(p) returns nil with p active when p is
\* registered and configured (no fallback search replaces it, even when a type
\* of higher fallback priority is usable); whenever it returns nil the active
\* provider is registered and configured; it returns an error when no
\* registered provider is configured; and it never changes the registry map.
C11_PreferredElseFallback ==
  AfterFallbackCall =>
    /\ providers = regRet.before.providers
    /\ Usable(regRet.before, regRet.arg) =>
         regRet.err = "nil" /\ activeProvider = regRet.arg
    /\ regRet.err = "nil" => Usable(CurSvc, activeProvider)
    /\ ~SomeUsable(regRet.before) => regRet.err # "nil"
    /\ (~Usable(regRet.before, regRet.arg) /\ SomeUsable(regRet.before)) =>
         regRet.err = "nil" /\ activeProvider # regRet.arg

\* A cloud provider is requested with only the local provider registered: the
\* call succeeds and the local provider is active.
C11_Witness ==
  /\ AfterFallbackCall
  /\ regRet.err = "nil"
  /\ Registered(CurSvc) = {ProviderOllama}
  /\ regRet.arg = ProviderOpenAI
  /\ activeProvider = ProviderOllama

\* The type the fallback search is to select in svc, spelled out from the
\* declared priority: the local provider, then OpenAI, Anthropic, Gemini.
FirstUsable(svc) ==
  IF Usable(svc, ProviderOllama) THEN ProviderOllama
  ELSE IF Usable(svc, ProviderOpenAI) THEN ProviderOpenAI
  ELSE IF Usable(svc, ProviderAnthropic) THEN ProviderAnthropic
  ELSE IF Usable(svc, ProviderGemini) THEN ProviderGemini
  ELSE ""

\* The call just returned had to run the fallback search: the requested type
\* was unregistered or unconfigured.
FallbackSearched == AfterFallbackCall /\ ~Usable(regRet.before, regRet.arg)

\* C12: the fallback search activates the first type in the order Ollama,
\* OpenAI, Anthropic, Gemini that is registered and configured, whatever the
\* registry's history (the order of registrations, re-registrations) and
\* whichever provider was active before the search.
C12_FallbackPriority ==
  (FallbackSearched /\ SomeUsable(regRet.before)) =>
    /\ regRet.err = "nil"
    /\ activeProvider = FirstUsable(regRet.before)

\* The search skips a usable provider that was active before and two usable
\* cloud providers of lower priority, and selects the local one.
C12_Witness ==
  /\ FallbackSearched
  /\ regRet.before.activeProvider = ProviderGemini
  /\ Usable(regRet.before, ProviderGemini)
  /\ Usable(regRet.before, ProviderOpenAI)
  /\ Usable(regRet.before, ProviderOllama)
  /\ ProviderAnthropic \in Registered(regRet.before)
  /\ activeProvider = ProviderOllama

(***************************************************************************)
(* ConfigManager.LoadFromProto                                             *)
(***************************************************************************)
\* The state is the one a LoadFromProto call has just returned in, and the
\* record named a provider to activate.
LoadedNamedProvider ==
  regRet.op = "LoadFromProto" /\ regRet.arg # "" /\ regRet.alone /\ cmCall.pc = ""

\* C13: after LoadFromProto of a record that names a provider to activate, the
\* active provider is a registered and configured one whenever some registered
\* provider is configured (naming an unregistered or an unconfigured provider
\* leads to the fixed-priority fallback search).
C13_LoadedActiveIsConfigured ==
  (LoadedNamedProvider /\ SomeUsable(CurSvc)) => Usable(CurSvc, activeProvider)

(***************************************************************************)
(* service.RegisterProvider: auto-selection                                *)
(***************************************************************************)
\* The state is the one a RegisterProvider call has just returned in; the
\* instance it was given is the one now stored under its type.
AfterRegister == regRet.op = "RegisterProvider" /\ cmCall.pc = ""

ReRegistered == AfterRegister /\ regRet.arg \in Registered(regRet.before)

\* The call stored the instance under its type and left every other entry alone.
StoredInstance ==
  /\ Registered(CurSvc) = Registered(regRet.before) \cup {regRet.arg}
  /\ \A t \in Registered(regRet.before) \ {regRet.arg} :
       providers[t] = regRet.before.providers[t]

\* C14 (as stated): RegisterProvider activates the registered provider only
\* when none is active yet and the provider reports configured, and a
\* re-registration of a type already in the registry never changes the active
\* marker.
C14_ReRegistrationKeepsActive ==
  AfterRegister =>
    /\ StoredInstance
    /\ activeProvider # regRet.before.activeProvider =>
         /\ regRet.before.activeProvider = ""
         /\ providers[regRet.arg].configured
         /\ activeProvider = regRet.arg
    /\ ReRegistered => activeProvider = regRet.before.activeProvider

\* C14 (amended): RegisterProvider activates the provider it is given exactly
\* when none is active yet and that provider reports configured, for a new type
\* and for a re-registration alike; with a provider active, no registration
\* changes the active marker.
C14_AutoSelectOnEveryRegistration ==
  AfterRegister =>
    /\ StoredInstance
    /\ activeProvider =
         IF regRet.before.activeProvider = "" /\ providers[regRet.arg].configured
           THEN regRet.arg
           ELSE regRet.before.activeProvider

\* A type registered unconfigured while nothing is active is registered again
\* with a configured instance: the instance is replaced and the type is active.
C14_Witness ==
  /\ ReRegistered
  /\ regRet.before.activeProvider = ""
  /\ ~regRet.before.providers[regRet.arg].configured
  /\ providers[regRet.arg].configured
  /\ activeProvider = regRet.arg
  /\ Cardinality(Registered(CurSvc)) >= 2

(***************************************************************************)
(* Service request methods                                                 *)
(***************************************************************************)
\* The state is the one a Service request method has just been recorded in;
\* reqRet.provider is the provider that was active when it was called.
AfterServiceRequest == reqRet.layer = "service" /\ reqRet.pc = ""

\* C15: Service.Complete, Embed, SuggestTags and Summarize return
\* ErrProviderNotConfigured, and invoke no provider method, when no provider is
\* active or the active one reports unconfigured; otherwise they invoke the
\* active provider's method and return its response and its error unchanged.
C15_DelegatesOrNotConfigured ==
  AfterServiceRequest =>
    IF reqRet.provider = NoProvider \/ ~reqRet.provider.configured
      THEN /\ reqRet.out.err = ErrProviderNotConfigured
           /\ reqRet.out.resp = ""
           /\ ~reqRet.out.invoked
      ELSE /\ reqRet.out.invoked
           /\ reqRet.given \in ProviderReplies(reqRet.provider, reqRet.method)
           /\ reqRet.out.resp = reqRet.given.resp
           /\ reqRet.out.err = reqRet.given.err

\* Service.SuggestTags forwarded to a configured active provider whose backend
\* is rate limited: the provider's wrapped error comes back as it is.
C15_Witness ==
  /\ AfterServiceRequest
  /\ reqRet.method = "SuggestTags"
  /\ reqRet.provider = Provider(ProviderOpenAI, TRUE)
  /\ reqRet.out.invoked
  /\ reqRet.out.err = <<"failed to get tag suggestions", "ErrRateLimited">>
  /\ \E t \in Registered(CurSvc) : ~providers[t].configured

(***************************************************************************)
(* Provider implementations called while unconfigured                      *)
(***************************************************************************)
\* C16: every request method (Complete, Embed, SuggestTags, Summarize,
\* GetAvailableModels) of every provider implementation, called while the
\* provider is unconfigured, fails with ErrProviderNotConfigured (as errors.Is
\* sees it) and sends no HTTP request.
C16_UnconfiguredFailsNotConfigured ==
  (reqRet.layer = "provider" /\ ~reqRet.provider.configured) =>
    /\ ErrorsIs(reqRet.out.err, ErrProviderNotConfigured)
    /\ reqRet.out.resp = ""
    /\ reqRet.given.calls = 0

(***************************************************************************)
(* KeyCrypto.Decrypt                                                       *)
(***************************************************************************)
\* The state is the one a Decrypt call has just been recorded in.
AfterDecrypt == kcRet.masterKey # ""

\* The text handed to Decrypt comes from an Encrypt call under another master
\* secret, was cut short, or is not valid base64.
TamperedInput ==
  \/ kcRet.from.masterKey # "" /\ kcRet.from.masterKey # kcRet.masterKey
  \/ kcRet.from.cut
  \/ kcRet.input.kind = "notbase64"

DecryptFailed == kcRet.out.err # NoError /\ kcRet.out.text = ""

\* C19 (as stated): given a ciphertext produced under a different master
\* secret, a truncated ciphertext, or a string that is not valid base64,
\* Decrypt returns an error and no plaintext.
C19_DecryptFailsClosed ==
  (AfterDecrypt /\ TamperedInput) => DecryptFailed

\* C19 (amended): the same for every such text that is not the empty string;
\* the empty string is accepted under every key and yields the empty plaintext
\* with no error.
C19_NonEmptyDecryptFailsClosed ==
  AfterDecrypt =>
    /\ (TamperedInput /\ kcRet.input # EmptyText) => DecryptFailed
    /\ kcRet.input = EmptyText => kcRet.out = [text |-> "", err |-> NoError]

\* A ciphertext of a non-empty plaintext, cut to a well-formed base64 prefix
\* that still holds the nonce, is decrypted under another master secret: the
\* GCM authentication fails.
C19_Witness ==
  /\ AfterDecrypt
  /\ kcRet.from.pt = "sk-key"
  /\ kcRet.from.cut
  /\ kcRet.from.masterKey # kcRet.masterKey
  /\ kcRet.input.chars % 4 = 0
  /\ DecodedLen(kcRet.input) >= NonceSize
  /\ kcRet.out.err = <<"failed to decrypt", "cipher: message authentication failed">>

(***************************************************************************)
(* InMemoryKeyStorage                                                      *)
(***************************************************************************)
VaultSlots == VaultUsers \X VaultProviders

\* The (user, provider) pair of the vault call a step makes.
CalledSlot == <<keyRet'.userID, keyRet'.providerType>>

\* What GetKey and HasKey answer for a pair.
Answer(ks, slot) ==
  [err  |-> GetKey(ks, slot[1], slot[2]).err,
   text |-> GetKey(ks, slot[1], slot[2]).text,
   has  |-> HasKey(ks, slot[1], slot[2])]

\* C17: after any sequence of StoreKey, UpdateKey, DeleteKey and MarkKeyUsed
\* calls (GetKey calls in between), for every user (user 0 included) and
\* provider GetKey returns exactly the plaintext of the most recent successful
\* StoreKey or UpdateKey for that pair, or ErrKeyNotFound when there is none
\* since the last DeleteKey, and HasKey tells which; and a call on one pair
\* leaves the answers of GetKey and HasKey for every other pair as they were.
C17_VaultIsAMap ==
  /\ [](\A slot \in VaultSlots :
          /\ Answer(keys, slot) =
               IF held[slot].has
                 THEN [err |-> NoError, text |-> held[slot].apiKey, has |-> TRUE]
                 ELSE [err |-> ErrKeyNotFound, text |-> "", has |-> FALSE]
          /\ (keyRet.op = "GetKey" /\ slot = <<keyRet.userID, keyRet.providerType>>) =>
               (keyRet.err = Answer(keys, slot).err /\ keyRet.text = Answer(keys, slot).text))
  /\ [][keys' # keys =>
          \A slot \in VaultSlots \ {CalledSlot} :
            Answer(keys', slot) = Answer(keys, slot)]_vars

\* Users 0 and 1 hold different keys for the same provider, one key was
\* replaced by UpdateKey and used, another pair was stored and deleted again,
\* and GetKey has just returned user 0's own plaintext.
C17_Witness ==
  /\ keyRet.op = "GetKey"
  /\ keyRet.userID = 0
  /\ keyRet.providerType = ProviderOllama
  /\ keyRet.err = NoError
  /\ keyRet.text = "sk-short"
  /\ held[<<1, ProviderOllama>>] = Held("sk-00000000000000055424")
  /\ HasKey(keys, 0, ProviderOllama)
  /\ keys[storageKey(0, ProviderOllama)].LastUsedAt
  /\ keys[storageKey(0, ProviderOllama)].MaskedKey = "****hort"
  /\ HasKey(keys, 1, ProviderOpenAI)
  /\ ~HasKey(keys, 0, ProviderOpenAI)

\* A vault call of this step was made with a key of the provider's format.
WellFormedKey == ValidateAPIKeyFormat(keyRet'.providerType, keyRet'.apiKey) = NoError

CalledHeld == HasKey(keys, keyRet'.userID, keyRet'.providerType)

\* C18 (as stated): StoreKey on a pair that holds a key fails with
\* ErrKeyAlreadyExists, UpdateKey and DeleteKey on a pair that holds none fail
\* with ErrKeyNotFound, and the vault is as it was.
C18_RejectedCallsLeaveVault ==
  [][/\ (keyRet'.op = "StoreKey" /\ CalledHeld) =>
          (keyRet'.err = ErrKeyAlreadyExists /\ keys' = keys)
     /\ (keyRet'.op \in {"UpdateKey", "DeleteKey"} /\ ~CalledHeld) =>
          (keyRet'.err = ErrKeyNotFound /\ keys' = keys)]_vars

\* C18 (amended): the same for calls whose API key passes the format
\* validation (DeleteKey takes no key); a call with a malformed key fails with
\* the validation error whether or not the pair holds a key; every failing
\* call leaves the vault as it was.
C18_WellFormedRejectedCallsLeaveVault ==
  [][/\ (keyRet'.op = "StoreKey" /\ CalledHeld /\ WellFormedKey) =>
          keyRet'.err = ErrKeyAlreadyExists
     /\ (keyRet'.op = "UpdateKey" /\ ~CalledHeld /\ WellFormedKey) =>
          keyRet'.err = ErrKeyNotFound
     /\ (keyRet'.op = "DeleteKey" /\ ~CalledHeld) => keyRet'.err = ErrKeyNotFound
     /\ (keyRet'.op \in {"StoreKey", "UpdateKey"} /\ ~WellFormedKey) =>
          /\ keyRet'.err # NoError
          /\ ~ErrorsIs(keyRet'.err, ErrKeyAlreadyExists)
          /\ ~ErrorsIs(keyRet'.err, ErrKeyNotFound)
     /\ keyRet'.err # NoError => keys' = keys]_vars

\* StoreKey with a well-formed key has just been refused on a pair that holds
\* another key, which is still there, next to a second record.
C18_Witness ==
  /\ keyRet.op = "StoreKey"
  /\ keyRet.err = ErrKeyAlreadyExists
  /\ keyRet.apiKey = "sk-short"
  /\ held[<<keyRet.userID, keyRet.providerType>>] = Held("sk-00000000000000055424")
  /\ GetKey(keys, keyRet.userID, keyRet.providerType).text = "sk-00000000000000055424"
  /\ Cardinality(DOMAIN keys) = 2


(***************************************************************************)
(* The response cache and its time to live                                 *)
(***************************************************************************)
\* The entry under key k is older than CacheTTL at the service's clock.
Expired(k) == now - cache[k].createdAt > config.CacheTTL

\* The key the call that has just returned looked up.
LookedUpKey == cacheKey(lastCall.req.content, lastCall.req.existingTags)

\* The step is a SuggestTags call that got past the rate limiter; it was
\* answered from the cache; it stored the LLM's answer with cacheResult.
LooksUp      == lastCall'.op = "SuggestTags" /\ lastCall'.err # ErrRateLimitExceeded
ServedCached == LooksUp /\ ~lastCall'.llm
StoresResult == LooksUp /\ lastCall'.llm /\ lastCall'.err = ""

\* The key the call of caller c is for.
KeyOf(c) == cacheKey(apiCalls[c].req.content, apiCalls[c].req.existingTags)

ExpiredEntryStep ==
  /\ \A c \in CallerIDs :
       (SuggestTagsLookup(c) /\ KeyOf(c) \in DOMAIN cache /\ Expired(KeyOf(c)))
         => /\ apiCalls'[c].pc = "llm"
            /\ cache' = cache
  /\ (LooksUp /\ lastCall'.llm /\ lastCall'.err # "") => cache' = cache
  /\ ServedCached
       => /\ cache' = cache
          /\ lastCall'.tags = SomeTags(cache[LookedUpKey'].tags)
  /\ \A k \in DOMAIN cache :
       (Expired(k) /\ (k \notin DOMAIN cache' \/ cache'[k] # cache[k]))
         => \/ lastCall'.op = "ClearCache"
            \/ /\ StoresResult
               /\ \/ k = LookedUpKey'
                  \/ GetCacheStats(cache, config).size >= config.MaxCacheSize

\* C20: a SuggestTags lookup of an entry older than CacheTTL is a miss (the LLM
\* service is asked), a lookup answered from the cache leaves the entry and its
\* age as they were, and an expired entry stays in the map, counted by
\* GetCacheStats, on every step but ClearCache, a cacheResult of the same key
\* and a cacheResult that finds the cache at MaxCacheSize (the eviction pass).
C20_ExpiredEntryIsMissButStays ==
  /\ [](GetCacheStats(cache, config).size
          >= Cardinality({k \in DOMAIN cache : Expired(k)}))
  /\ [][ExpiredEntryStep]_vars

\* C20 witness: a call looked up a key whose entry had expired and is asking
\* the LLM service, and the expired entry is still one of the two entries
\* GetCacheStats counts.
C20_Witness ==
  \E c \in CallerIDs :
    /\ At(c, "SuggestTags", "llm")
    /\ apiCalls[c].seen = "expired"
    /\ KeyOf(c) \in DOMAIN cache
    /\ Expired(KeyOf(c))
    /\ GetCacheStats(cache, config).size = 2


(***************************************************************************)
(* The response cache and its capacity                                     *)
(***************************************************************************)
\* C21: the number of cache entries GetCacheStats reports never exceeds the
\* MaxCacheSize it reports.
C21_CacheSizeWithinMax ==
  GetCacheStats(cache, config).size <= GetCacheStats(cache, config).maxSize

\* The same for a service built with a MaxCacheSize of at least one.
CacheSizeWithinPositiveMax == config.MaxCacheSize >= 1 => C21_CacheSizeWithinMax


\* The call that has just returned stored the LLM's answer for its request.
JustStored == lastCall.op = "SuggestTags" /\ lastCall.llm /\ lastCall.err = ""

\* C22: requests that differ in content or in the existing-tags list have
\* different cache keys, so a request is never answered with tags cached for
\* another pair: when the only cache entry is the one the previous call has
\* just stored for its (content, existing-tags) pair, a call answered from the
\* cache is a call for that same pair.
C22_AnsweredFromOwnPairOnly ==
  [][(/\ JustStored
      /\ GetCacheStats(cache, config).size = 1
      /\ ServedCached)
       => lastCall'.req = lastCall.req]_vars


(***************************************************************************)
(* The rate limiter under the calls of several users                       *)
(***************************************************************************)
\* The rate-limit entry of user u, or none.
NoEntry     == [count |-> 0, windowEnd |-> -1]
EntryOf(rl, u) == IF u \in DOMAIN rl THEN rl[u] ELSE NoEntry

\* C23: a SuggestTags or SuggestTagsAsync call of user u, admitted or
\* rejected, leaves the rate-limit entry of every other user as it was (absent,
\* or the same count and window end), and whether the next call of another
\* user would be admitted is the same after the call as before it.
C23_OtherUsersUntouched ==
  [][/\ \A u \in UserIDs :
          CallBy(u) =>
            \A u2 \in UserIDs \ {u} :
              /\ EntryOf(rateLimits', u2) = EntryOf(rateLimits, u2)
              /\ checkRateLimit(rateLimits', u2, now', config).ok
                   = checkRateLimit(rateLimits, u2, now, config).ok
     /\ (\E c \in CallerIDs : apiCalls[c].pc # "idle" /\ apiCalls'[c] # apiCalls[c])
          => rateLimits' = rateLimits]_vars

\* C23 witness: user 1 has just been rejected with the quota used up while
\* user 2, with one call in the same window, would still be admitted.
C23_Witness ==
  /\ lastCall.op \in {"SuggestTags", "SuggestTagsAsync"}
  /\ lastCall.user = 1
  /\ lastCall.err = ErrRateLimitExceeded
  /\ EntryOf(rateLimits, 1).count = config.RateLimitRequests
  /\ EntryOf(rateLimits, 2).count = 1
  /\ rateLimits[2].windowEnd = rateLimits[1].windowEnd
  /\ checkRateLimit(rateLimits, 2, now, config).ok


\* The step is a call of user u that reaches the rate limiter, and the call
\* is rejected there.
ReachesLimiter(u) ==
  \E c \in CallerIDs, r \in Requests :
    SuggestTags(c, u, r) \/ (config.EnableAsync /\ SuggestTagsAsync(c, u, r))
Rejected == IsTagCall /\ lastCall'.err = ErrRateLimitExceeded

\* The window of user u has elapsed: an entry exists and its end has passed.
WindowElapsed(u) == u \in DOMAIN rateLimits /\ now > rateLimits[u].windowEnd

\* C24: the call of a user whose window end has passed is admitted and
\* replaces the entry by a fresh window with count 1 ending RateLimitWindow
\* from now, whatever the elapsed window counted; a rejected call changes no
\* counter and no window end.
C24_ElapsedWindowReopens ==
  [][\A u \in UserIDs :
       ReachesLimiter(u) =>
         /\ WindowElapsed(u)
              => /\ ~Rejected
                 /\ rateLimits'[u]
                      = [count |-> 1, windowEnd |-> now + config.RateLimitWindow]
         /\ Rejected => rateLimits' = rateLimits]_vars

\* C24 witness: user 1 is the only caller, RateLimitRequests asynchronous
\* jobs exist, and a SuggestTags call in progress has opened, as its first
\* call, the window that starts now: the calls that made the jobs were
\* admitted before it.
C24_Witness ==
  /\ \E c \in CallerIDs : At(c, "SuggestTags", "lookup") /\ apiCalls[c].user = 1
  /\ \A c \in CallerIDs : apiCalls[c].op # "SuggestTagsAsync"
  /\ DOMAIN rateLimits = {1}
  /\ rateLimits[1] = [count |-> 1, windowEnd |-> now + config.RateLimitWindow]
  /\ Cardinality(DOMAIN heap) = config.RateLimitRequests


\* C25: GetRateLimitStatus changes no rate-limit entry; for a user with an
\* open window it returns RateLimitRequests - count, not below zero, and the
\* window's end; for a user with no entry or with an elapsed window it returns
\* the full RateLimitRequests.
C25_StatusQueryReadsOnly ==
  [][lastCall'.op = "GetRateLimitStatus" =>
       LET u == lastCall'.user
           n == config.RateLimitRequests
       IN /\ rateLimits' = rateLimits
          /\ WindowOpen(rateLimits, u, now)
               => /\ lastCall'.status.remaining
                       = (IF n - rateLimits[u].count > 0
                            THEN n - rateLimits[u].count ELSE 0)
                  /\ lastCall'.status.resetAt = rateLimits[u].windowEnd
          /\ ~WindowOpen(rateLimits, u, now)
               => lastCall'.status.remaining = n]_vars

\* C25 witness: the status of user 1 was queried with the quota of the open
\* window used up (nothing remains), and the status of user 2, whose window
\* has elapsed with one call counted, would be the full quota.
C25_Witness ==
  /\ lastCall.op = "GetRateLimitStatus"
  /\ lastCall.user = 1
  /\ WindowOpen(rateLimits, 1, now)
  /\ rateLimits[1].count = config.RateLimitRequests
  /\ lastCall.status = [remaining |-> 0, resetAt |-> rateLimits[1].windowEnd]
  /\ WindowElapsed(2)
  /\ GetRateLimitStatus(rateLimits, 2, now, config).remaining = config.RateLimitRequests


(***************************************************************************)
(* The job queue                                                           *)
(***************************************************************************)
\* C26: the job queue never holds more than AsyncQueueSize jobs, and a
\* SuggestTagsAsync call that finds it holding AsyncQueueSize jobs at its send
\* returns the queue-full error in the same step, leaving the queue as it was;
\* with room in the queue the send makes the job the queue's last element and
\* the call returns that job.
C26_FullQueueFailsAtOnce ==
  /\ [](Len(jobQueue) <= config.AsyncQueueSize)
  /\ [][\A c \in CallerIDs :
          /\ SuggestTagsAsyncSend(c) =>
               IF Len(jobQueue) >= config.AsyncQueueSize
                 THEN /\ lastCall'.op = "SuggestTagsAsync"
                      /\ lastCall'.err = ErrQueueFull
                      /\ apiCalls'[c].pc = "idle"
                      /\ jobQueue' = jobQueue
                 ELSE /\ jobQueue' = Append(jobQueue, apiCalls[c].job)
                      /\ apiCalls'[c].pc = "return"
                      /\ apiCalls'[c].job = apiCalls[c].job
          /\ SuggestTagsAsyncReturn(c) =>
               /\ lastCall'.op = "SuggestTagsAsync"
               /\ lastCall'.err = ""
               /\ lastCall'.job = apiCalls[c].job
               /\ jobQueue' = jobQueue]_vars

\* C26 witness: a call has just returned the queue-full error while no worker
\* had taken a job: the queue holds AsyncQueueSize jobs and the job table one
\* more, the rejected one.
C26_Witness ==
  /\ lastCall.op = "SuggestTagsAsync"
  /\ lastCall.err = ErrQueueFull
  /\ Len(jobQueue) = config.AsyncQueueSize
  /\ \A w \in DOMAIN workers : workers[w].pc = "idle"
  /\ Cardinality(jobs) = config.AsyncQueueSize + 1
  /\ \E id \in jobs : \A i \in 1 .. Len(jobQueue) : jobQueue[i] # id


(***************************************************************************)
(* The job table: cleanup, the callback, Stop                              *)
(***************************************************************************)
\* The jobs of the table that ended more than maxAge ago.
EndedBefore(maxAge) ==
  {id \in jobs : /\ heap[id].Status \in {TagJobStatusCompleted, TagJobStatusFailed}
                 /\ heap[id].CompletedAt >= 0
                 /\ heap[id].CompletedAt + maxAge < now}

\* C27: CleanupExpiredJobs(maxAge) removes from the job table exactly the jobs
\* that are completed or failed and whose completion time lies more than maxAge
\* in the past, returns their number, and keeps every pending and running job.
C27_CleanupRemovesOldTerminalJobs ==
  [][\A a \in MaxAges :
       CleanupExpiredJobs(a) =>
         /\ jobs' = jobs \ EndedBefore(a)
         /\ lastCall'.job = Cardinality(EndedBefore(a))
         /\ \A id \in jobs :
              heap[id].Status \in {TagJobStatusPending, TagJobStatusRunning}
                => id \in jobs'
         /\ heap' = heap]_vars

\* C27 witness: a cleanup has just removed one job and kept another that is
\* pending or running.
C27_Witness ==
  /\ lastCall.op = "CleanupExpiredJobs"
  /\ lastCall.job = 1
  /\ Cardinality(DOMAIN heap) = Cardinality(jobs) + 1
  /\ \E id \in jobs : heap[id].Status \in {TagJobStatusPending, TagJobStatusRunning}


\* C28: the completion callback has been invoked at most once with each job,
\* and a job it has been invoked with is completed or failed; the callback is
\* entered only by a worker whose job has one of these two statuses.
C28_CallbackOncePerTerminalJob ==
  /\ [](\A id \in DOMAIN cbCalls :
          /\ cbCalls[id] <= 1
          /\ heap[id].Status \in {TagJobStatusCompleted, TagJobStatusFailed})
  /\ [][\A w \in WorkerIDs :
          WorkerCallback(w) =>
            /\ heap[workers[w].job].Status \in {TagJobStatusCompleted, TagJobStatusFailed}
            /\ workers[w].job \notin DOMAIN cbCalls]_vars

\* C28 witness: the callback has been invoked with two jobs, once each, one of
\* them failed and one completed.
C28_Witness ==
  /\ Cardinality(DOMAIN cbCalls) = 2
  /\ \A id \in DOMAIN cbCalls : cbCalls[id] = 1
  /\ \E id \in DOMAIN cbCalls : heap[id].Status = TagJobStatusFailed
  /\ \E id \in DOMAIN cbCalls : heap[id].Status = TagJobStatusCompleted


\* A step of worker w: it takes a job from the queue, runs a step of
\* processJob, or exits.
WorkerStep(w) ==
  \/ WorkerDequeue(w) \/ WorkerRunning(w) \/ WorkerLLMReturn(w) \/ WorkerStatus(w)
  \/ WorkerResult(w) \/ WorkerCache(w) \/ WorkerStore(w) \/ WorkerCallbackTest(w)
  \/ WorkerCallback(w) \/ WorkerCallbackReturn(w) \/ WorkerExit(w)

\* C29: when Stop has returned every worker goroutine has exited, and from
\* then on no worker takes a step: nothing is received from the job queue, no
\* job that exists changes, the job table loses or regains no job, the cache
\* and the record of callback invocations stay as they are.
C29_StopWaitsForWorkers ==
  /\ [](stopState = "stopped" => \A w \in WorkerIDs : workers[w].pc = "exited")
  /\ [][stopState = "stopped" =>
          /\ \A w \in WorkerIDs : ~WorkerStep(w)
          /\ workers' = workers
          /\ cache' = cache
          /\ cbCalls' = cbCalls
          /\ SubSeq(jobQueue', 1, Len(jobQueue)) = jobQueue
          /\ jobs \subseteq jobs'
          /\ \A id \in DOMAIN heap : heap'[id] = heap[id]]_vars

\* C29 witness: Stop has returned after a worker processed one job and invoked
\* the callback with it, a pending job is left in the queue, and
\* SuggestTagsAsync has been called since Stop returned.
C29_Witness ==
  /\ stopState = "stopped"
  /\ cbCalls # EmptyMap
  /\ jobQueue # <<>>
  /\ heap[Head(jobQueue)].Status = TagJobStatusPending
  /\ lastCall.op = "SuggestTagsAsync"


(***************************************************************************)
(* ConfigManager: saving and loading the registry                          *)
(***************************************************************************)
\* The Service that LoadFromProto builds from the record ToProto writes for
\* the current Service.
Reloaded == LoadFromProto(NewService, ToProto(CurSvc)).svc

SameTypesAndActive ==
  /\ Registered(Reloaded) = Registered(CurSvc)
  /\ Reloaded.activeProvider = activeProvider

\* C30: for a Service whose registered instances are provider implementations
\* of the repository, loading the record ToProto produces for it into a fresh
\* Service gives a registry with the same provider types and the same active
\* provider as the Service has.
C30_ConfigRoundTrip ==
  (\A t \in Registered(CurSvc) : providers[t] \in ProviderImpls) => SameTypesAndActive

\* The same for a registry that holds nothing but an OpenAIProvider and an
\* OllamaProvider.
RoundTripOfPersistedTypes ==
  (\A t \in Registered(CurSvc) :
      TypeAssertion(providers[t], ProviderOpenAI)
        \/ TypeAssertion(providers[t], ProviderOllama))
    => SameTypesAndActive


(***************************************************************************)
(* The response cache: the eviction pass                                   *)
(***************************************************************************)
\* The unexpired entries of the cache, and the entries a step removed other
\* than the entry of the key the step stored.
LiveKeys      == {k \in DOMAIN cache : ~Expired(k)}
EvictedBy(key) == {k \in DOMAIN cache \ {key} : k \notin DOMAIN cache'}
SurvivorsOf(key) == {k \in DOMAIN cache \ {key} : k \in DOMAIN cache'}

\* C31: a store that finds the cache at capacity removes every expired entry;
\* it removes unexpired entries only when the unexpired entries alone still
\* fill the cache, and then max(1, MaxCacheSize / 10) of them (as many as there
\* are), none of them created later than an unexpired entry that stays. The
\* entry of the stored key is replaced by the new one, so whether the pass
\* removed it cannot be seen; entries that stay are unchanged. A store that
\* finds the cache below capacity removes nothing.
C31_EvictionExpiredThenOldest ==
  [][StoresResult =>
       LET key  == LookedUpKey'
           gone == EvictedBy(key)
           stay == SurvivorsOf(key)
           n    == IF ToRemove(config) < Cardinality(LiveKeys)
                     THEN ToRemove(config) ELSE Cardinality(LiveKeys)
       IN /\ cache'[key].createdAt = now
          /\ \A k \in stay : cache'[k] = cache[k]
          /\ IF GetCacheStats(cache, config).size < config.MaxCacheSize
               THEN gone = {}
             ELSE /\ \A k \in DOMAIN cache \ {key} : Expired(k) => k \in gone
                  /\ IF Cardinality(LiveKeys) < config.MaxCacheSize
                       THEN gone \cap LiveKeys = {}
                     ELSE /\ Cardinality(gone \cap LiveKeys) \in
                               (IF key \in LiveKeys THEN {n - 1, n} ELSE {n})
                          /\ \A e \in gone \cap LiveKeys, k \in stay :
                               cache[e].createdAt <= cache[k].createdAt]_vars

\* C31 witness: a store has just removed an unexpired entry from a cache that
\* was at capacity, and an entry created later than the removed one has stayed
\* next to the new entry.
C31_Witness ==
  /\ JustStored
  /\ config.MaxCacheSize = MaxCacheSize
  /\ GetCacheStats(cache, config).size = MaxCacheSize
  /\ \E e \in DOMAIN lastCall.evicted :
       /\ ~(now - lastCall.evicted[e].createdAt > config.CacheTTL)
       /\ \E k \in DOMAIN cache \ {LookedUpKey} :
            lastCall.evicted[e].createdAt < cache[k].createdAt


(***************************************************************************)
(* TagService: progress of the worker pool                                 *)
(***************************************************************************)
\* The steps of worker w that are the service's own code: the receive of its
\* select, the statements of processJob up to the call of the callback. The
\* backend call is among them: it runs under a 30-second deadline.
WorkerProgress(w) ==
  \/ WorkerDequeue(w)
  \/ WorkerExit(w)
  \/ WorkerRunning(w)
  \/ WorkerLLMReturn(w)
  \/ WorkerStatus(w)
  \/ WorkerResult(w)
  \/ WorkerCache(w)
  \/ WorkerStore(w)
  \/ WorkerCallbackTest(w)
  \/ WorkerCallback(w)

\* The service that is stopped while it works, with the Go scheduler running
\* every goroutine that can take a step: a worker that can proceed does, and
\* Stop returns once wg.Wait() can. The callback is the caller's function:
\* nothing makes it return.
SpecTagStopFair ==
  /\ SpecTagStop
  /\ WF_vars(\E w \in WorkerIDs : WorkerProgress(w))
  /\ WF_vars(StopReturn)

InCallback == \E w \in WorkerIDs : workers[w].pc = "incallback"

\* C32: a worker that has entered the completion callback is eventually out of
\* it again, whether or not the callback returns, and a Stop that has been
\* called eventually returns (in a process that goes on running).
C32_CallbackNeverBlocksWorker ==
  /\ InCallback ~> ~InCallback
  /\ (stopState = "stopping") ~> (stopState \in {"stopped", "crashed"})


(***************************************************************************)
(* TagService: the deadline of the backend call                            *)
(***************************************************************************)
\* The backend calls of the TagService, one at a time, against a backend that
\* answers at any time or not at all.
SpecLLMCall == Init /\ [][LLMCallNext]_vars

\* C33: a backend call made by the synchronous SuggestTags or by the worker is
\* never in progress for more than 30 seconds, whatever deadline the caller's
\* context has.
C33_BackendCallBoundedTo30s ==
  llmCall.pc = "running" => llmCall.elapsed <= LLMCallTimeout

\* The worker's share of C33: the backend call of processJob is never in
\* progress for more than 30 seconds.
WorkerCallBoundedTo30s ==
  (llmCall.pc = "running" /\ llmCall.by = "processJob") => llmCall.elapsed <= LLMCallTimeout


(***************************************************************************)
(* Properties: the request body across retries                             *)
(***************************************************************************)
\* C34: every attempt of a DoRequest call with a non-nil body transmits the
\* serialized payload: no attempt ends in the transport's failure to find the
\* announced number of bytes in the request's body.
C34_EveryAttemptSendsPayload ==
  reqBody.present => lastOutcome.cause # "bodylen"


(***************************************************************************)
(* Properties: the job table and the calls that fill it                    *)
(***************************************************************************)
\* C35: when a SuggestTagsAsync call returns the queue-full error the job
\* table is as it was before the call: the job the call built, which was never
\* placed on the queue, is not in the table.
C35_QueueFullLeavesJobTable ==
  [][\A c \in CallerIDs :
       (SuggestTagsAsyncSend(c) /\ lastCall'.err = ErrQueueFull)
         => apiCalls[c].job \notin jobs']_vars


\* C36: a job that CleanupExpiredJobs has removed from the job table is never
\* put back by the worker that is finishing it. Job IDs are fresh and only
\* CleanupExpiredJobs removes jobs, so a job of the heap that is missing from
\* the table was removed by it: no step of a worker adds a job to the table.
C36_RemovedJobStaysRemoved ==
  [][(\E w \in WorkerIDs : WorkerStep(w)) => jobs' \subseteq jobs]_vars


\* TagService.GetJob(jobID): the job of the table under that ID, if any.
GetJob(tbl, h, id) ==
  IF id \in tbl THEN [exists |-> TRUE, job |-> h[id]]
                ELSE [exists |-> FALSE, job |-> TagJob(Req("", <<>>), "", NilTags, -1)]

\* C37: GetJob finds every job that SuggestTagsAsync has returned without
\* error, the completed job of a cache hit included, from the return of the
\* call on; a job GetJob finds is found until a CleanupExpiredJobs call
\* removes it.
C37_ReturnedJobIsRetrievable ==
  /\ [][(lastCall'.op = "SuggestTagsAsync" /\ lastCall'.err = "")
          => /\ GetJob(jobs', heap', lastCall'.job).exists
             /\ GetJob(jobs', heap', lastCall'.job).job = heap'[lastCall'.job]]_vars
  /\ [][lastCall'.op # "CleanupExpiredJobs"
          => \A id \in jobs : GetJob(jobs', heap', id).exists]_vars


(***************************************************************************)
(* Properties: a failed activation with fallback                           *)
(***************************************************************************)
\* C38: a SetActiveProviderWithFallback call that returns an error leaves the
\* Service's active provider as it was before the call.
C38_FailedFallbackKeepsActive ==
  (AfterFallbackCall /\ regRet.err # "nil") =>
    activeProvider = regRet.before.activeProvider


(***************************************************************************)
(* Properties: progress of queued jobs                                     *)
(***************************************************************************)
\* The service with its worker pool, never stopped, with every goroutine that
\* can take a step scheduled, every backend call returning (it runs under the
\* worker's 30-second deadline) and every callback returning.
SpecTagAsyncFair ==
  /\ SpecTagAsync
  /\ WF_vars(\E w \in WorkerIDs : WorkerProgress(w))
  /\ WF_vars(\E w \in WorkerIDs : WorkerCallbackReturn(w))

\* The job is on the job queue.
Queued(id) == \E i \in 1 .. Len(jobQueue) : jobQueue[i] = id

\* An invocation of the callback has not returned: it was the call of a nil
\* func value, which panics and ends the process.
CallbackDidNotReturn == stopState = "crashed"

\* C39: with a worker, no Stop, and backend calls and callbacks that return,
\* every job that is on the job queue eventually has status completed or
\* failed; the one behaviour in which it does not is the one the claim leaves
\* out, an invocation of the callback that does not return.
C39_QueuedJobEventuallyTerminal ==
  \A id \in 1 .. MaxJobs :
    Queued(id) ~> \/ id \in DOMAIN heap /\ IsTerminal(heap[id].Status)
                  \/ CallbackDidNotReturn

\* C39 witness: every job created went through the queue and a worker and has
\* failed there, the queue is empty and the workers are at their select.
C39_Witness ==
  /\ Cardinality(DOMAIN heap) = MaxJobs
  /\ \A id \in DOMAIN heap : heap[id].Status = TagJobStatusFailed
  /\ jobQueue = <<>>
  /\ \A w \in WorkerIDs : workers[w].pc = "idle"


(***************************************************************************)
(* Properties: tag lists handed to callers                                 *)
(***************************************************************************)
\* The synchronous TagService and a caller that writes into the returned lists.
SpecTagCaller == Init /\ [][TagCallerNext]_vars

\* C40: when a caller changes a tag list that SuggestTags returned to it, from
\* a cache hit or from the backend on a miss, what a cache lookup finds stays
\* the same for every request.
C40_CallerCannotChangeCache ==
  [][CallerChangesTags =>
       \A r \in Requests :
         getFromCache(cache', r, now', config') = getFromCache(cache, r, now, config)]_vars

====
